---- MODULE Spec2Model ----
(***************************************************************************)
(* Knowledge Garden backend: the category tree (tag-service), its          *)
(* best-effort SearchIndex propagation, and the read-through caches.       *)
(*                                                                         *)
(* PrimaryStore documents are records; a request handler is a step         *)
(* function whose program counter stops at every await of the handler, so  *)
(* that the same translation serves requests run one at a time (the step   *)
(* function iterated to completion inside one action) and requests whose   *)
(* awaits interleave (one step per action).                                *)
(***************************************************************************)
EXTENDS Integers, Sequences, FiniteSets, TLC

\* ------------------------------------------------------------- bounds
MaxCats == 3        \* category ids are 1..MaxCats
TreeRequests == 5   \* requests of one behaviour of SpecTree
MaxRequests == 4    \* requests of one behaviour of Spec
MaxTasks == 2       \* requests whose awaits may interleave

\* ------------------------------------------------------------- values
NULL == 0                       \* parent: null (part_002:30)
ROOT == 0 - 1                   \* the 'root' sentinel of moveCategory
Ids == 1 .. MaxCats
NoSuchId == MaxCats + 1         \* a well-formed id no document has
Tasks == 1 .. MaxTasks

\* a mongoose whose documents still have remove()
DocumentRemoveWorks == TRUE

\* package.json:14 pins mongoose ^7.4.0; Document.prototype.remove() was
\* removed in mongoose 7.0, so `await category.remove()` throws a TypeError.
DocumentRemoveSupported == FALSE

\* ------------------------------------------------------------- strings
\* A string is a sequence of one-character strings.
RECURSIVE TrimLeft(_)
TrimLeft(s) == IF s # <<>> /\ Head(s) = " " THEN TrimLeft(Tail(s)) ELSE s

RECURSIVE TrimRight(_)
TrimRight(s) ==
    IF s # <<>> /\ s[Len(s)] = " " THEN TrimRight(SubSeq(s, 1, Len(s) - 1)) ELSE s

\* String.prototype.trim
Trim(s) == TrimRight(TrimLeft(s))

\* String.prototype.toLowerCase on the model's alphabet
LowerChar(ch) ==
    CASE ch = "A" -> "a" [] ch = "B" -> "b" [] ch = "C" -> "c" [] OTHER -> ch

ToLowerCase(s) == [i \in 1 .. Len(s) |-> LowerChar(s[i])]

\* .replace(/\s+/g, '-'): every run of white space becomes one '-'
RECURSIVE ReplaceSpaces(_)
ReplaceSpaces(s) ==
    IF s = <<>> THEN <<>>
    ELSE IF Head(s) = " " THEN <<"-">> \o ReplaceSpaces(TrimLeft(s))
    ELSE <<Head(s)>> \o ReplaceSpaces(Tail(s))

WordChars == {"a", "b", "c", "A", "B", "C", "_", "-"}

\* .replace(/[^\w\-]+/g, ''): drop what is neither a word character nor '-'
RECURSIVE KeepWordChars(_)
KeepWordChars(s) ==
    IF s = <<>> THEN <<>>
    ELSE IF Head(s) \in WordChars THEN <<Head(s)>> \o KeepWordChars(Tail(s))
    ELSE KeepWordChars(Tail(s))

\* CategorySchema.pre('save'): slug from name
Slugify(name) == KeepWordChars(ReplaceSpaces(ToLowerCase(Trim(name))))

\* ------------------------------------------------------------- documents
\* A Category document; v is mongoose's versionKey __v.
NewDoc(id, name, parent, ancestors) ==
    [id |-> id, name |-> Trim(name), slug |-> Slugify(Trim(name)),
     parent |-> parent, ancestors |-> ancestors, resourceCount |-> 0, v |-> 0]

NoDoc == [id |-> NULL, name |-> <<>>, slug |-> <<>>, parent |-> NULL,
          ancestors |-> <<>>, resourceCount |-> 0, v |-> 0]

\* the ancestors of a child, its parent left out
ancestorsWithoutParent(parentAncestors, parentId) == parentAncestors

\* [...parent.ancestors, parent]: the ancestors of a child of `parentId`
childAncestors(parentAncestors, parentId) == parentAncestors \o <<parentId>>

\* Array.prototype.includes on a MongooseArray of ObjectIds
Includes(seq, x) == \E i \in 1 .. Len(seq) : seq[i] = x

RECURSIVE SortedIds(_)
SortedIds(S) ==
    IF S = {} THEN <<>>
    ELSE LET m == CHOOSE x \in S : \A y \in S : x <= y
         IN <<m>> \o SortedIds(S \ {m})

\* a findById that answers a document of the collection whatever the id
findSome(c, id) ==
    IF DOMAIN c = {} THEN <<>> ELSE <<c[CHOOSE i \in DOMAIN c : TRUE]>>

\* Category.findById: <<doc>> or <<>> for null
findById(c, id) == IF id \in DOMAIN c THEN <<c[id]>> ELSE <<>>

\* Category.findOne({ name })
findOneByName(c, name) == {i \in DOMAIN c : c[i].name = name}

\* a find that reports no subcategory
findNoSubcategory(c, parentId) == <<>>

\* Category.find({ parent: parentId }), in _id order
findByParent(c, parentId) ==
    LET S == {i \in DOMAIN c : c[i].parent = parentId}
        ids == SortedIds(S)
    IN [k \in 1 .. Len(ids) |-> c[ids[k]]]

\* Category.exists({ parent: id })
existsChild(c, id) == \E i \in DOMAIN c : c[i].parent = id

\* document.save() of a loaded document `orig` changed locally into `new`:
\* only the modified paths are written; replacing the ancestors array makes
\* mongoose add __v to the filter and increment it, and a save that matches
\* no document throws (VersionError / DocumentNotFoundError).
saveDoc(c, orig, new) ==
    LET id == orig.id
        arrayModified == new.ancestors # orig.ancestors
    IN IF id \notin DOMAIN c \/ (arrayModified /\ c[id].v # orig.v)
       THEN [ok |-> FALSE, cats |-> c]
       ELSE [ok |-> TRUE,
             cats |-> [c EXCEPT
                ![id].parent = IF new.parent # orig.parent THEN new.parent ELSE @,
                ![id].ancestors = IF arrayModified THEN new.ancestors ELSE @,
                ![id].v = IF arrayModified THEN @ + 1 ELSE @]]

\* a collection with no unique index
noDuplicateKey(c, doc) == FALSE

\* the names and slugs are unique indexes (part_002:14, part_002:23)
duplicateKey(c, doc) ==
    \E i \in DOMAIN c : c[i].name = doc.name \/ c[i].slug = doc.slug

\* ------------------------------------------------------------- SearchIndex
\* An index holds, per document id, the projection last written to it.
EmptyIndex == [i \in {} |-> <<>>]

\* The index argument of the tag service's calls: the client's `indices`
\* namespace (client.indices.exists, client.indices.create, ...) has no property
\* `categories` or `tags`, so the argument is undefined: <<>>, a name being <<name>>.
categoriesIndex == <<>>
tagsIndex == <<>>

\* client.index, client.update and client.delete build the request path from
\* params.index.toString(): with no index they throw before anything is sent.
\* `up` says whether the SearchIndex answers this call.
reached(index, up) == index # <<>> /\ up

\* elasticsearch.indexDocument: client.index creates or replaces the document;
\* a failure is logged (logger.error) and rethrown
indexDocument(docs, index, id, document, up) ==
    LET ok == reached(index, up) IN
    [docs |-> IF ok THEN [i \in DOMAIN docs \cup {id} |->
                             IF i = id THEN document ELSE docs[i]]
              ELSE docs,
     log |-> [call |-> "index", id |-> id, ok |-> ok, logged |-> ~ok, thrown |-> ~ok]]

\* client.update({ doc }): the fields given replace those of the indexed document
mergeDocument(old, document) ==
    [f \in DOMAIN old \cup DOMAIN document |->
        IF f \in DOMAIN document THEN document[f] ELSE old[f]]

\* elasticsearch.updateDocument: client.update fails on a document that is not
\* in the index; every failure is logged and rethrown
updateDocument(docs, index, id, document, up) ==
    LET ok == reached(index, up) /\ id \in DOMAIN docs IN
    [docs |-> IF ok THEN [docs EXCEPT ![id] = mergeDocument(@, document)] ELSE docs,
     log |-> [call |-> "update", id |-> id, ok |-> ok, logged |-> ~ok, thrown |-> ~ok]]

\* a deleteDocument that rethrows the 404 too
deleteDocumentStrict(docs, index, id, up) ==
    LET ok == reached(index, up) /\ id \in DOMAIN docs IN
    [docs |-> IF ok THEN [i \in DOMAIN docs \ {id} |-> docs[i]] ELSE docs,
     log |-> [call |-> "delete", id |-> id, ok |-> ok, logged |-> ~ok,
              thrown |-> ~ok, result |-> IF ok THEN "deleted" ELSE "none"]]

\* elasticsearch.deleteDocument: a 404 is logged and answered { result: 'not_found' };
\* every other failure is logged and rethrown. result: what the caller is handed
\* back, "none" when the call throws.
deleteDocument(docs, index, id, up) ==
    LET ok == reached(index, up) /\ id \in DOMAIN docs IN
    [docs |-> IF ok THEN [i \in DOMAIN docs \ {id} |-> docs[i]] ELSE docs,
     log |-> [call |-> "delete", id |-> id, ok |-> ok, logged |-> ~ok,
              thrown |-> ~reached(index, up),
              result |-> IF ok THEN "deleted"
                         ELSE IF reached(index, up) THEN "not_found" ELSE "none"]]

\* ------------------------------------------------------------- requests
\* An optional body field is <<>> (absent) or <<value>>.
NoBody ==
    [name |-> <<>>, parent |-> <<>>, ancestors |-> <<>>, resourceCount |-> <<>>,
     usageCount |-> <<>>, title |-> <<>>, visibility |-> <<>>, viewCount |-> <<>>,
     role |-> <<>>, password |-> <<>>, currentPassword |-> <<>>, late |-> <<>>]

\* req.user as the authenticate middleware sets it
Admin == [id |-> 1, role |-> "admin"]

\* op: the handler; id: req.params.id; name: req.body.name (create);
\* parent: req.body.parent (create) or req.body.newParentId (move);
\* body: req.body (update); esUp: whether the SearchIndex answers this request;
\* cacheUp: whether Redis answers the Cache calls of this request, cacheHangs:
\* whether it takes them and never replies;
\* user: req.user, an admin on the category routes.
Request(op, id, name, parent, body, esUp) ==
    [op |-> op, id |-> id, name |-> name, parent |-> parent, body |-> body,
     esUp |-> esUp, cacheUp |-> TRUE, cacheHangs |-> FALSE, user |-> Admin,
     noStats |-> FALSE]

NoRequest == Request("none", NULL, <<>>, NULL, NoBody, TRUE)

\* a request on the resource routes; noStats: req.query.noStats
ResourceRequest(op, id, body, user, noStats) ==
    [Request(op, id, <<>>, NULL, body, TRUE) EXCEPT !.user = user, !.noStats = noStats]

\* ------------------------------------------------------------- Cache
\* A key is the sequence of its ':'-separated segments.
IdSegment(id) == <<"1", "2", "3", "4", "5", "6">>[id]

EmptyCache == [k \in {} |-> NoDoc]

\* Each wrapper of cache.js runs its Redis command inside try/catch: `up` says
\* whether Redis answers the command; when it does not, the error is logged
\* and the wrapper returns as if nothing had been asked of it.

\* a set that stores nothing
cacheKeep(cache, key, value, up) == cache

\* cache.set(key, value, expiry)
cacheSet(cache, key, value, up) ==
    IF ~up THEN cache
    ELSE [k \in DOMAIN cache \cup {key} |-> IF k = key THEN value ELSE cache[k]]

\* a get that answers from the store whether or not Redis does
cacheGetAnyway(cache, key, up) ==
    IF key \in DOMAIN cache THEN <<cache[key]>> ELSE <<>>

\* cache.get(key): <<value>>, or <<>> for null
cacheGet(cache, key, up) ==
    IF up /\ key \in DOMAIN cache THEN <<cache[key]>> ELSE <<>>

\* cache.del(key)
cacheDel(cache, key, up) ==
    IF ~up THEN cache ELSE [k \in DOMAIN cache \ {key} |-> cache[k]]

\* a glob pattern, segment by segment: a final "*" stands for any rest
globMatch(pattern, key) ==
    IF pattern # <<>> /\ pattern[Len(pattern)] = "*"
    THEN /\ Len(key) >= Len(pattern)
         /\ SubSeq(key, 1, Len(pattern) - 1) = SubSeq(pattern, 1, Len(pattern) - 1)
    ELSE key = pattern

ScanCount == 2      \* keys one SCAN call looks at

\* the do-while loop of clearByPattern: one SCAN with MATCH pattern over the
\* next keys of the keyspace, a DEL of the keys it returned, and again until
\* the cursor Redis hands back is 0 (nothing left unscanned)
RECURSIVE scanLoop(_, _, _)
scanLoop(cache, pattern, unscanned) ==
    LET size == IF Cardinality(unscanned) < ScanCount
                THEN Cardinality(unscanned) ELSE ScanCount
        page == CHOOSE S \in SUBSET unscanned : Cardinality(S) = size
        keys == {k \in page : globMatch(pattern, k)}
        left == [k \in DOMAIN cache \ keys |-> cache[k]]
        cursor == unscanned \ page
    IN IF cursor = {} THEN left ELSE scanLoop(left, pattern, cursor)

\* cache.clearByPattern(pattern)
clearByPattern(cache, pattern, up) ==
    IF ~up THEN cache ELSE scanLoop(cache, pattern, DOMAIN cache)

\* ------------------------------------------------------------- the stores
\* cats, tags: the categories and tags collections, id -> document;
\* nextId, nextTagId: the next _id of each;
\* catIndex, tagIndex: the categories and tags indexes of the SearchIndex.
EmptyStore == [i \in {} |-> NoDoc]

EmptyDb ==
    [cats |-> EmptyStore, nextId |-> 1, catIndex |-> EmptyIndex,
     tags |-> EmptyStore, nextTagId |-> 1, tagIndex |-> EmptyIndex,
     resources |-> EmptyStore, nextResourceId |-> 1,
     users |-> EmptyStore, nextUserId |-> 1,
     cache |-> EmptyCache, detached |-> <<>>]

\* ------------------------------------------------------------- tasks
\* The local state of one request: pc is the await it is stopped at, doc the
\* document as loaded, upd the document as changed locally, stack the frames of
\* updateSubcategoryAncestors, res the response, out its body.  pre (the stores when the request
\* arrived), writes (ids written to PrimaryStore), esLog (SearchIndex calls
\* made) and cacheLog (Cache calls made) record the request's history; of a
\* cache-checked read, hit says that cache.get found the key, reads counts its
\* PrimaryStore reads and spawned the promises it started without awaiting.
FirstPc(r) ==
    LET op == r.op IN
    CASE op = "create" -> "create:findOne"
      [] op = "move"   -> "move:findById"
      [] op = "update" -> "update:findById"
      [] op = "delete" -> "delete:findById"
      [] op = "createTag" -> "createTag:findOne"
      [] op = "updateTag" -> "updateTag:findById"
      [] op = "deleteTag" -> "deleteTag:findById"
      [] op = "incrementUsage" -> "incrementUsage:findById"
      [] op \in {"getCategories", "getTags"} ->
           IF r.name = <<>> THEN op \o ":find" ELSE op \o ":fullTextSearch"
      [] op = "globalSearch" -> "globalSearch:msearch"
      [] op = "advancedSearch" -> "advancedSearch:search"
      [] op = "getResource" -> "getResource:cacheGet"
      [] op \in {"getMe", "getUser"} -> op \o ":cacheGet"
      [] op = "createUser" -> "createUser:create"
      [] op \in {"updateDetails", "updateUser"} -> op \o ":findByIdAndUpdate"
      [] op \in {"updatePassword", "deleteUser", "changeUserRole"} -> op \o ":findById"
      [] op \in {"forgotPassword", "resetPassword"} -> op \o ":findOne"
      [] op = "createResource" -> "createResource:create"
      [] op = "updateResource" -> "updateResource:findById"
      [] op = "deleteResource" -> "deleteResource:findById"
      [] OTHER         -> "done"

\* the body of a search response: its keys, the entities it lists, its facets
NoOutput == [shape |-> {}, items |-> {}, facets |-> {}]

IdleTask ==
    [pc |-> "idle", req |-> NoRequest, doc |-> NoDoc, upd |-> NoDoc, stack |-> <<>>,
     res |-> "", out |-> NoOutput, pre |-> EmptyDb, writes |-> <<>>, esLog |-> <<>>,
     cacheLog |-> <<>>, hit |-> FALSE, reads |-> 0, spawned |-> 0]

NewTask(r, db) == [IdleTask EXCEPT !.pc = FirstPc(r), !.req = r, !.pre = db]

Out(db, ts) == [db |-> db, ts |-> ts]

\* the expiry, in seconds, the handlers pass to cache.set
OneHour == 3600

\* a Cache call recorded with the number of PrimaryStore writes and of
\* SearchIndex calls the request made before it; expiry is 0 but for a set
CacheCall(ts, call, key, expiry) ==
    [ts EXCEPT !.cacheLog =
        Append(@, [call |-> call, key |-> key, expiry |-> expiry,
                   writes |-> Len(ts.writes), index |-> Len(ts.esLog)])]

TagOps == {"createTag", "updateTag", "deleteTag", "incrementUsage"}

\* a handler that answers success whatever happened
RespondOK(ts, res) == [ts EXCEPT !.pc = "done", !.res = "OK"]

\* res.status(...).json(...): the handler returns
Respond(ts, res) == [ts EXCEPT !.pc = "done", !.res = res]

\* a SearchIndex call whose failure reaches the handler's outer catch
Propagate(db, ts, call, res) ==
    Out(db, Respond([ts EXCEPT !.esLog =
                        Append(@, [after |-> Len(ts.writes)] @@ call.log)],
                    IF call.log.thrown THEN "ServerError" ELSE res))

\* a SearchIndex call inside try { } catch (esError) { logger.warn(...) }:
\* the index as the call left it, the call recorded, the handler going on
\* (each call is recorded with the number of PrimaryStore writes made before it)
BestEffort(db, ts, call, res) ==
    Out(IF ts.req.op \in TagOps THEN [db EXCEPT !.tagIndex = call.docs]
                                ELSE [db EXCEPT !.catIndex = call.docs],
        Respond([ts EXCEPT !.esLog =
                    Append(@, [after |-> Len(ts.writes)] @@ call.log)], res))

\* ------------------------------------------------------------- createCategory
\* the document createCategory indexes
categoryDocument(doc) == [name |-> doc.name, parent |-> doc.parent]

createCategory(db, ts) ==
    LET r == ts.req
        c == db.cats
    IN
    CASE ts.pc = "create:findOne" ->
           IF findOneByName(c, Trim(r.name)) # {}
           THEN Out(db, Respond(ts, "DuplicateName"))
           ELSE IF r.parent # NULL
           THEN Out(db, [ts EXCEPT !.pc = "create:findParent"])
           ELSE Out(db, [ts EXCEPT !.pc = "create:create",
                                   !.upd = NewDoc(NULL, r.name, NULL, <<>>)])
      [] ts.pc = "create:findParent" ->
           LET parentCategory == findById(c, r.parent) IN
           IF parentCategory = <<>>
           THEN Out(db, Respond(ts, "NotFound"))
           ELSE Out(db, [ts EXCEPT !.pc = "create:create",
                    !.upd = NewDoc(NULL, r.name, r.parent,
                               childAncestors(parentCategory[1].ancestors, r.parent))])
      [] ts.pc = "create:create" ->
           LET n == db.nextId
               doc == [ts.upd EXCEPT !.id = n]
           IN IF duplicateKey(c, doc)
              THEN Out(db, Respond(ts, "ServerError"))
              ELSE Out([db EXCEPT
                          !.cats = [i \in DOMAIN c \cup {n} |->
                                       IF i = n THEN doc ELSE c[i]],
                          !.nextId = n + 1],
                       [ts EXCEPT !.pc = "create:index", !.doc = doc,
                                  !.writes = Append(@, n)])
      [] ts.pc = "create:index" ->
           BestEffort(db, ts,
               indexDocument(db.catIndex, categoriesIndex, ts.doc.id,
                             categoryDocument(ts.doc), r.esUp),
               "Created")

\* ------------------------------------------------------------- moveCategory
\* a frame that drops the ancestors it was called with
FrameOfRoot(parentId, parentAncestors) ==
    [parentId |-> parentId, parentAncestors |-> <<>>, found |-> FALSE, subs |-> <<>>]

\* A frame of updateSubcategoryAncestors: its arguments, and the result of
\* Category.find once awaited, shortened as the loop proceeds.
Frame(parentId, parentAncestors) ==
    [parentId |-> parentId, parentAncestors |-> parentAncestors,
     found |-> FALSE, subs |-> <<>>]

\* a frame whose loop is over returns to its caller
RECURSIVE unwind(_)
unwind(stack) ==
    IF stack # <<>> /\ stack[Len(stack)].found /\ stack[Len(stack)].subs = <<>>
    THEN unwind(SubSeq(stack, 1, Len(stack) - 1))
    ELSE stack

\* the circular-reference check of moveCategory
isCircular(newParent, newParentId, categoryId) ==
    Includes(newParent.ancestors, categoryId) \/ newParentId = categoryId

updateSubcategoryAncestors(db, ts) ==
    LET c == db.cats
        depth == Len(ts.stack)
        top == ts.stack[depth]
    IN IF ~top.found
       THEN LET subs == findByParent(c, top.parentId)
                st == unwind([ts.stack EXCEPT ![depth] =
                                 [top EXCEPT !.found = TRUE, !.subs = subs]])
            IN Out(db, [ts EXCEPT !.stack = st,
                          !.pc = IF st = <<>> THEN "move:index" ELSE "move:repair"])
       ELSE LET subcategory == Head(top.subs)
                new == [subcategory EXCEPT
                          !.ancestors = childAncestors(top.parentAncestors, top.parentId)]
                sv == saveDoc(c, subcategory, new)
            IN IF ~sv.ok
               THEN Out(db, Respond(ts, "ServerError"))
               ELSE Out([db EXCEPT !.cats = sv.cats],
                     [ts EXCEPT
                        !.writes = Append(@, subcategory.id),
                        \* deeper than there are categories: a category is its own
                        \* descendant and the recursion does not end
                        !.pc = IF depth >= Cardinality(DOMAIN c)
                               THEN "diverged" ELSE "move:repair",
                        !.stack = Append([@ EXCEPT ![depth].subs = Tail(top.subs)],
                                         Frame(subcategory.id, new.ancestors))])

moveCategory(db, ts) ==
    LET r == ts.req
        c == db.cats
    IN
    CASE ts.pc = "move:findById" ->
           LET category == findById(c, r.id) IN
           IF category = <<>>
           THEN Out(db, Respond(ts, "NotFound"))
           ELSE IF r.parent = ROOT
           THEN Out(db, [ts EXCEPT !.pc = "move:save", !.doc = category[1],
                     !.upd = [category[1] EXCEPT !.parent = NULL, !.ancestors = <<>>]])
           ELSE Out(db, [ts EXCEPT !.pc = "move:findParent", !.doc = category[1],
                                   !.upd = category[1]])
      [] ts.pc = "move:findParent" ->
           LET newParent == findById(c, r.parent) IN
           IF newParent = <<>>
           THEN Out(db, Respond(ts, "NotFound"))
           ELSE IF isCircular(newParent[1], r.parent, r.id)
           THEN Out(db, Respond(ts, "CycleError"))
           ELSE Out(db, [ts EXCEPT !.pc = "move:save",
                     !.upd = [@ EXCEPT !.parent = r.parent,
                        !.ancestors = childAncestors(newParent[1].ancestors, r.parent)]])
      [] ts.pc = "move:save" ->
           LET sv == saveDoc(c, ts.doc, ts.upd) IN
           IF ~sv.ok
           THEN Out(db, Respond(ts, "ServerError"))
           ELSE Out([db EXCEPT !.cats = sv.cats],
                    [ts EXCEPT !.pc = "move:repair",
                               !.writes = Append(@, r.id),
                               !.stack = <<Frame(r.id, ts.upd.ancestors)>>])
      [] ts.pc = "move:repair" -> updateSubcategoryAncestors(db, ts)
      [] ts.pc = "move:index" ->
           BestEffort(db, ts,
               updateDocument(db.catIndex, categoriesIndex, r.id,
                              [parent |-> ts.upd.parent], r.esUp),
               "OK")

\* ------------------------------------------------------------- updateCategory
\* `if (req.body.parent) delete req.body.parent`: only a truthy parent is dropped
stripParent(body) ==
    IF body.parent # <<>> /\ body.parent[1] # NULL
    THEN [body EXCEPT !.parent = <<>>] ELSE body

\* Category.findByIdAndUpdate(id, { ...req.body, updatedAt }): $set of every field
\* the body carries (the name through the schema's trim setter); no versioning
applyUpdate(doc, body) ==
    [doc EXCEPT
       !.name = IF body.name # <<>> THEN Trim(body.name[1]) ELSE @,
       !.parent = IF body.parent # <<>> THEN body.parent[1] ELSE @,
       !.ancestors = IF body.ancestors # <<>> THEN body.ancestors[1] ELSE @,
       !.resourceCount = IF body.resourceCount # <<>> THEN body.resourceCount[1] ELSE @]

updateCategory(db, ts) ==
    LET r == ts.req
        c == db.cats
    IN
    CASE ts.pc = "update:findById" ->
           LET category == findById(c, r.id) IN
           IF category = <<>>
           THEN Out(db, Respond(ts, "NotFound"))
           ELSE IF r.body.name # <<>> /\ Trim(r.body.name[1]) # category[1].name
           THEN Out(db, [ts EXCEPT !.pc = "update:findOne", !.doc = category[1]])
           ELSE Out(db, [ts EXCEPT !.pc = "update:findByIdAndUpdate",
                                   !.doc = category[1]])
      [] ts.pc = "update:findOne" ->
           IF findOneByName(c, Trim(r.body.name[1])) # {}
           THEN Out(db, Respond(ts, "DuplicateName"))
           ELSE Out(db, [ts EXCEPT !.pc = "update:findByIdAndUpdate"])
      [] ts.pc = "update:findByIdAndUpdate" ->
           IF r.id \notin DOMAIN c
           THEN Out(db, Respond(ts, "ServerError"))   \* null.id: TypeError
           ELSE LET new == applyUpdate(c[r.id], stripParent(r.body)) IN
                IF \E i \in DOMAIN c \ {r.id} : c[i].name = new.name
                THEN Out(db, Respond(ts, "ServerError"))   \* E11000 on name
                ELSE Out([db EXCEPT !.cats = [c EXCEPT ![r.id] = new]],
                         [ts EXCEPT !.pc = "update:index", !.upd = new,
                                    !.writes = Append(@, r.id)])
      [] ts.pc = "update:index" ->
           BestEffort(db, ts,
               updateDocument(db.catIndex, categoriesIndex, r.id,
                              [name |-> ts.upd.name], r.esUp),
               "OK")

\* ------------------------------------------------------------- deleteCategory
deleteCategory(db, ts) ==
    LET r == ts.req
        c == db.cats
    IN
    CASE ts.pc = "delete:findById" ->
           LET category == findById(c, r.id) IN
           IF category = <<>>
           THEN Out(db, Respond(ts, "NotFound"))
           ELSE Out(db, [ts EXCEPT !.pc = "delete:exists", !.doc = category[1]])
      [] ts.pc = "delete:exists" ->
           IF existsChild(c, r.id)
           THEN Out(db, Respond(ts, "HasChildren"))
           ELSE IF ts.doc.resourceCount > 0
           THEN Out(db, Respond(ts, "NotEmpty"))
           ELSE Out(db, [ts EXCEPT !.pc = "delete:remove"])
      [] ts.pc = "delete:remove" ->
           IF ~DocumentRemoveSupported
           THEN Out(db, Respond(ts, "ServerError"))   \* category.remove is not a function
           ELSE Out([db EXCEPT !.cats = [i \in DOMAIN c \ {r.id} |-> c[i]]],
                    [ts EXCEPT !.pc = "delete:index", !.writes = Append(@, r.id)])
      [] ts.pc = "delete:index" ->
           BestEffort(db, ts, deleteDocument(db.catIndex, categoriesIndex, r.id, r.esUp), "OK")

\* ------------------------------------------------------------- tags
MaxTags == 2        \* tag ids are 1..MaxTags

NewTag(id, name, createdBy) ==
    [id |-> id, name |-> name, usageCount |-> 0, createdBy |-> createdBy,
     isSystemTag |-> FALSE]

\* the document the tag handlers pass to the SearchIndex
tagDocument(tag) == [name |-> tag.name, usageCount |-> tag.usageCount]

\* admin or creator
mayChange(user, tag) == user.role = "admin" \/ tag.createdBy = user.id

createTag(db, ts) ==
    LET r == ts.req
        name == Trim(ToLowerCase(r.name))
    IN
    CASE ts.pc = "createTag:findOne" ->
           IF findOneByName(db.tags, name) # {}
           THEN Out(db, Respond(ts, "DuplicateName"))
           ELSE Out(db, [ts EXCEPT !.pc = "createTag:create"])
      [] ts.pc = "createTag:create" ->
           LET n == db.nextTagId
               tag == NewTag(n, name, r.user.id)
           IN IF findOneByName(db.tags, name) # {}
              THEN Out(db, Respond(ts, "ServerError"))   \* E11000 on name
              ELSE Out([db EXCEPT
                          !.tags = [i \in DOMAIN db.tags \cup {n} |->
                                       IF i = n THEN tag ELSE db.tags[i]],
                          !.nextTagId = n + 1],
                       [ts EXCEPT !.pc = "createTag:index", !.doc = tag, !.upd = tag,
                                  !.writes = Append(@, n)])
      [] ts.pc = "createTag:index" ->
           BestEffort(db, ts,
               indexDocument(db.tagIndex, tagsIndex, ts.doc.id, tagDocument(ts.doc), r.esUp),
               "Created")

\* Tag.findByIdAndUpdate(id, { ...req.body, updatedAt }): the name through the
\* schema's trim and lowercase setters
applyTagUpdate(tag, body) ==
    [tag EXCEPT
       !.name = IF body.name # <<>> THEN Trim(ToLowerCase(body.name[1])) ELSE @,
       !.usageCount = IF body.usageCount # <<>> THEN body.usageCount[1] ELSE @]

updateTag(db, ts) ==
    LET r == ts.req
        g == db.tags
    IN
    CASE ts.pc = "updateTag:findById" ->
           LET tag == findById(g, r.id) IN
           IF tag = <<>>
           THEN Out(db, Respond(ts, "NotFound"))
           ELSE IF ~mayChange(r.user, tag[1])
           THEN Out(db, Respond(ts, "Forbidden"))
           ELSE IF r.body.name # <<>> /\ Trim(ToLowerCase(r.body.name[1])) # tag[1].name
           THEN Out(db, [ts EXCEPT !.pc = "updateTag:findOne", !.doc = tag[1]])
           ELSE Out(db, [ts EXCEPT !.pc = "updateTag:findByIdAndUpdate", !.doc = tag[1]])
      [] ts.pc = "updateTag:findOne" ->
           IF findOneByName(g, Trim(ToLowerCase(r.body.name[1]))) # {}
           THEN Out(db, Respond(ts, "DuplicateName"))
           ELSE Out(db, [ts EXCEPT !.pc = "updateTag:findByIdAndUpdate"])
      [] ts.pc = "updateTag:findByIdAndUpdate" ->
           IF r.id \notin DOMAIN g
           THEN Out(db, Respond(ts, "ServerError"))   \* null.id: TypeError
           ELSE LET new == applyTagUpdate(g[r.id], r.body) IN
                IF \E i \in DOMAIN g \ {r.id} : g[i].name = new.name
                THEN Out(db, Respond(ts, "ServerError"))   \* E11000 on name
                ELSE Out([db EXCEPT !.tags = [g EXCEPT ![r.id] = new]],
                         [ts EXCEPT !.pc = "updateTag:index", !.upd = new,
                                    !.writes = Append(@, r.id)])
      [] ts.pc = "updateTag:index" ->
           BestEffort(db, ts,
               updateDocument(db.tagIndex, tagsIndex, r.id, tagDocument(ts.upd), r.esUp), "OK")

deleteTag(db, ts) ==
    LET r == ts.req
        g == db.tags
    IN
    CASE ts.pc = "deleteTag:findById" ->
           LET tag == findById(g, r.id) IN
           IF tag = <<>>
           THEN Out(db, Respond(ts, "NotFound"))
           ELSE IF ~mayChange(r.user, tag[1])
           THEN Out(db, Respond(ts, "Forbidden"))
           ELSE IF tag[1].isSystemTag /\ r.user.role # "admin"
           THEN Out(db, Respond(ts, "Forbidden"))
           ELSE Out(db, [ts EXCEPT !.pc = "deleteTag:remove", !.doc = tag[1]])
      [] ts.pc = "deleteTag:remove" ->
           IF ~DocumentRemoveSupported
           THEN Out(db, Respond(ts, "ServerError"))   \* tag.remove is not a function
           ELSE Out([db EXCEPT !.tags = [i \in DOMAIN g \ {r.id} |-> g[i]]],
                    [ts EXCEPT !.pc = "deleteTag:index", !.writes = Append(@, r.id)])
      [] ts.pc = "deleteTag:index" ->
           BestEffort(db, ts, deleteDocument(db.tagIndex, tagsIndex, r.id, r.esUp), "OK")

incrementUsage(db, ts) ==
    LET r == ts.req
        g == db.tags
    IN
    CASE ts.pc = "incrementUsage:findById" ->
           LET tag == findById(g, r.id) IN
           IF tag = <<>>
           THEN Out(db, Respond(ts, "NotFound"))
           ELSE Out(db, [ts EXCEPT !.pc = "incrementUsage:save", !.doc = tag[1],
                            !.upd = [tag[1] EXCEPT !.usageCount = @ + 1]])
      [] ts.pc = "incrementUsage:save" ->
           \* tag.save(): $set of the locally computed usageCount
           IF r.id \notin DOMAIN g
           THEN Out(db, Respond(ts, "ServerError"))   \* DocumentNotFoundError
           ELSE Out([db EXCEPT !.tags = [g EXCEPT ![r.id].usageCount = ts.upd.usageCount]],
                    [ts EXCEPT !.pc = "incrementUsage:index",
                               !.writes = Append(@, r.id)])
      [] ts.pc = "incrementUsage:index" ->
           BestEffort(db, ts,
               updateDocument(db.tagIndex, tagsIndex, r.id,
                   [usageCount |-> ts.upd.usageCount], r.esUp),
               "OK")

\* ------------------------------------------------------------- resources
MaxResources == 2   \* resource ids are 1..MaxResources

\* owner: the id of the owning user; populated: whether the copy at hand
\* carries the owner's document in place of the id
NewResource(id, title, visibility, owner) ==
    [id |-> id, title |-> title, visibility |-> visibility, owner |-> owner,
     populated |-> FALSE, status |-> "active", viewCount |-> 0]

\* .populate('owner', 'name profileImage'): the owner's id gives way to the
\* owner's document
populate(resource) == [resource EXCEPT !.populated = TRUE]

ResourceKey(id) == <<"resource", IdSegment(id)>>

\* req.user of a request that carries no token
Guest == [id |-> 0, role |-> "guest"]

\* getResource: the visibility check; "" when the resource may be shown
\* resource.owner._id.toString() is evaluated first for every signed-in caller:
\* on a copy parsed from the Cache whose owner is a bare id string, owner._id
\* is undefined and toString() throws into the handler's catch
visibilityError(resource, user) ==
    IF resource.visibility = "public" THEN ""
    ELSE IF user = Guest THEN "Unauthorized"
    ELSE IF ~resource.populated THEN "ServerError"
    ELSE IF resource.owner # user.id /\ user.role # "admin" THEN "Forbidden"
    ELSE ""

\* getResource from the visibility check on: the view count update is started
\* and not awaited, the resource read is returned
showResource(db, ts, resource) ==
    LET err == visibilityError(resource, ts.req.user) IN
    IF err # "" THEN Out(db, Respond(ts, err))
    ELSE Out(IF ts.req.noStats THEN db
             ELSE [db EXCEPT !.detached =
                      Append(@, [pc |-> "findByIdAndUpdate", id |-> ts.req.id,
                                 doc |-> NoDoc, cacheUp |-> ts.req.cacheUp])],
             Respond([ts EXCEPT !.upd = resource,
                                !.spawned = IF ts.req.noStats THEN @ ELSE @ + 1], "OK"))

getResource(db, ts) ==
    LET r == ts.req
        key == ResourceKey(r.id)
    IN
    CASE ts.pc = "getResource:cacheGet" ->
           LET cachedResource == cacheGet(db.cache, key, ts.req.cacheUp)
               got == CacheCall(ts, "get", key, 0)
           IN
           IF cachedResource # <<>>
           THEN showResource(db, [got EXCEPT !.hit = TRUE], cachedResource[1])
           ELSE Out(db, [got EXCEPT !.pc = "getResource:findById"])
      [] ts.pc = "getResource:findById" ->
           LET resource == findById(db.resources, r.id)
               read == [ts EXCEPT !.reads = @ + 1]
           IN
           IF resource = <<>>
           THEN Out(db, Respond(read, "NotFound"))
           ELSE Out(db, [read EXCEPT !.pc = "getResource:cacheSet",
                                     !.doc = populate(resource[1])])
      [] ts.pc = "getResource:cacheSet" ->
           showResource([db EXCEPT !.cache = cacheSet(@, key, ts.doc, ts.req.cacheUp)],
                        CacheCall(ts, "set", key, OneHour), ts.doc)

\* Resource.findByIdAndUpdate(id, { $inc: { viewCount: 1 } }).then(cache.set):
\* the promise getResource leaves behind, one await at a time
viewCountUpdate(db, k) ==
    LET d == db.detached[k]
        rest == [j \in 1 .. (Len(db.detached) - 1) |->
                    IF j < k THEN db.detached[j] ELSE db.detached[j + 1]]
    IN
    CASE d.pc = "findByIdAndUpdate" ->
           IF d.id \notin DOMAIN db.resources
           THEN [db EXCEPT !.detached = rest]
           ELSE LET updatedResource ==
                       [db.resources[d.id] EXCEPT !.viewCount = @ + 1]
                IN [db EXCEPT !.resources = [@ EXCEPT ![d.id] = updatedResource],
                              !.detached = [@ EXCEPT ![k] =
                                 [pc |-> "cacheSet", id |-> d.id,
                                  doc |-> updatedResource, cacheUp |-> d.cacheUp]]]
      [] d.pc = "cacheSet" ->
           [db EXCEPT !.cache = cacheSet(@, ResourceKey(d.id), d.doc, d.cacheUp),
                      !.detached = rest]

createResource(db, ts) ==
    LET r == ts.req
        n == db.nextResourceId
        resource == NewResource(n, r.body.title[1], r.body.visibility[1], r.user.id)
    IN Out([db EXCEPT
              !.resources = [i \in DOMAIN db.resources \cup {n} |->
                                IF i = n THEN resource ELSE db.resources[i]],
              !.nextResourceId = n + 1],
           Respond([ts EXCEPT !.doc = resource, !.upd = resource,
                              !.writes = Append(@, n)], "Created"))

\* updateResource: restricted fields are deleted from the body when truthy
stripRestricted(body) ==
    IF body.viewCount # <<>> /\ body.viewCount[1] # 0
    THEN [body EXCEPT !.viewCount = <<>>] ELSE body

applyResourceUpdate(resource, body) ==
    [resource EXCEPT
       !.title = IF body.title # <<>> THEN body.title[1] ELSE @,
       !.visibility = IF body.visibility # <<>> THEN body.visibility[1] ELSE @,
       !.viewCount = IF body.viewCount # <<>> THEN body.viewCount[1] ELSE @]

mayChangeResource(user, resource) == resource.owner = user.id \/ user.role = "admin"

updateResource(db, ts) ==
    LET r == ts.req
        c == db.resources
    IN
    CASE ts.pc = "updateResource:findById" ->
           LET resource == findById(c, r.id) IN
           IF resource = <<>>
           THEN Out(db, Respond(ts, "NotFound"))
           ELSE IF ~mayChangeResource(r.user, resource[1])
           THEN Out(db, Respond(ts, "Forbidden"))
           ELSE Out(db, [ts EXCEPT !.pc = "updateResource:findByIdAndUpdate",
                                   !.doc = resource[1]])
      [] ts.pc = "updateResource:findByIdAndUpdate" ->
           LET new == applyResourceUpdate(c[r.id], stripRestricted(r.body)) IN
           Out([db EXCEPT !.resources = [c EXCEPT ![r.id] = new]],
               [ts EXCEPT !.pc = "updateResource:cacheDel", !.upd = new,
                          !.writes = Append(@, r.id)])
      [] ts.pc = "updateResource:cacheDel" ->
           Out([db EXCEPT !.cache = cacheDel(@, ResourceKey(r.id), ts.req.cacheUp)],
               Respond(CacheCall(ts, "del", ResourceKey(r.id), 0), "OK"))

deleteResource(db, ts) ==
    LET r == ts.req
        c == db.resources
    IN
    CASE ts.pc = "deleteResource:findById" ->
           LET resource == findById(c, r.id) IN
           IF resource = <<>>
           THEN Out(db, Respond(ts, "NotFound"))
           ELSE IF ~mayChangeResource(r.user, resource[1])
           THEN Out(db, Respond(ts, "Forbidden"))
           ELSE Out(db, [ts EXCEPT !.pc = "deleteResource:save", !.doc = resource[1],
                            !.upd = [resource[1] EXCEPT !.status = "deleted"]])
      [] ts.pc = "deleteResource:save" ->
           \* resource.save(): $set of the one modified path
           Out([db EXCEPT !.resources = [c EXCEPT ![r.id].status = "deleted"]],
               [ts EXCEPT !.pc = "deleteResource:cacheDel",
                          !.writes = Append(@, r.id)])
      [] ts.pc = "deleteResource:cacheDel" ->
           Out([db EXCEPT !.cache = cacheDel(@, ResourceKey(r.id), ts.req.cacheUp)],
               Respond(CacheCall(ts, "del", ResourceKey(r.id), 0), "OK"))

\* ------------------------------------------------------------- searching
\* A term matches the name it equals once both are case folded, in the
\* SearchIndex analyzer as in the $text index of PrimaryStore.
matches(name, q) == ToLowerCase(name) = ToLowerCase(q)

Items(kind, ids) == {[kind |-> kind, id |-> i] : i \in ids}

\* client.search on `index`; with no index the request goes to /_search and
\* covers every index of the SearchIndex
searchHits(db, index, q) ==
    IF index = <<>>
    THEN Items("category", {i \in DOMAIN db.catIndex : matches(db.catIndex[i].name, q)})
           \cup Items("tag", {i \in DOMAIN db.tagIndex : matches(db.tagIndex[i].name, q)})
    ELSE {}   \* resources, users, collections: indexes no handler writes

\* Model.find({ $text: { $search: query } }), or Model.find() with no query
findText(c, q) == {i \in DOMAIN c : q = <<>> \/ matches(c[i].name, q)}

ListingShape == {"success", "count", "data"}
GlobalShape == {"success", "data"}
AdvancedShape == {"success", "data", "meta"}

\* getCategories and getTags: the query is req.query.query, <<>> when absent
getListing(db, ts) ==
    LET r == ts.req
        op == r.op
        kind == IF op = "getCategories" THEN "category" ELSE "tag"
        c == IF op = "getCategories" THEN db.cats ELSE db.tags
        index == IF op = "getCategories" THEN categoriesIndex ELSE tagsIndex
    IN
    CASE ts.pc = op \o ":fullTextSearch" ->
           IF r.esUp
           THEN Out(db, Respond([ts EXCEPT !.out =
                       [shape |-> ListingShape, items |-> searchHits(db, index, r.name),
                        facets |-> {}]], "OK"))
           ELSE Out(db, [ts EXCEPT !.pc = op \o ":find"])
      [] ts.pc = op \o ":find" ->
           Out(db, [ts EXCEPT !.pc = op \o ":countDocuments",
                      !.out = [shape |-> ListingShape,
                               items |-> Items(kind, findText(c, r.name)),
                               facets |-> {}]])
      [] ts.pc = op \o ":countDocuments" -> Out(db, Respond(ts, "OK"))

\* globalSearch: on a failing msearch the arrays of responseData stay empty
globalSearch(db, ts) ==
    LET r == ts.req IN
    IF r.name = <<>> THEN Out(db, Respond(ts, "BadRequest"))
    ELSE Out(db, Respond([ts EXCEPT !.out =
                [shape |-> GlobalShape,
                 items |-> IF r.esUp THEN searchHits(db, tagsIndex, r.name) ELSE {},
                 facets |-> {}]], "OK"))

\* advancedSearch: a failing search goes to next(err); an answered one gives
\* { total, hits: [...] }, on which results.hits.hits.map throws a TypeError
advancedSearch(db, ts) == Out(db, Respond(ts, "ServerError"))

\* ------------------------------------------------------------- users
MaxUsers == 2       \* user ids are 1..MaxUsers

\* bcrypt.hash and the sha256 digest of a reset token
Hash(password) == <<"bcrypt", password>>
Digest(token) == <<"sha256", token>>

\* UserSchema.methods.matchPassword
matchPassword(entered, stored) == Hash(entered) = stored

\* User.create: the pre-save hook hashes the password
NewUser(id, name, role, password) ==
    [id |-> id, name |-> name, role |-> role, password |-> Hash(password),
     isActive |-> TRUE, resetPasswordToken |-> <<>>]

\* the administrator the deployment starts with: the admin routes admit no one else
SeededUsers == [i \in {Admin.id} |-> NewUser(Admin.id, "root", Admin.role, "p0")]

\* UserSchema.methods.getProfile
getProfile(user) == [id |-> user.id, name |-> user.name, role |-> user.role]

ProfileKey(id) == <<"user", IdSegment(id), "profile">>
AdminUserKey(id) == <<"admin", "user", IdSegment(id)>>
\* a pattern that names no user
EveryUsersPattern(id) == <<"user", "*">>

OwnKeysPattern(id) == <<"user", IdSegment(id), "*">>

\* getMe (key user:{id}:profile of the caller) and getUser (key admin:user:{id})
getProfileCached(db, ts) ==
    LET r == ts.req
        op == r.op
        userId == IF op = "getMe" THEN r.user.id ELSE r.id
        cacheKey == IF op = "getMe" THEN ProfileKey(userId) ELSE AdminUserKey(userId)
    IN
    CASE ts.pc = op \o ":cacheGet" ->
           LET cachedUser == cacheGet(db.cache, cacheKey, ts.req.cacheUp)
               got == CacheCall(ts, "get", cacheKey, 0)
           IN
           IF cachedUser # <<>>
           THEN Out(db, Respond([got EXCEPT !.upd = cachedUser[1], !.hit = TRUE], "OK"))
           ELSE Out(db, [got EXCEPT !.pc = op \o ":findById"])
      [] ts.pc = op \o ":findById" ->
           LET user == findById(db.users, userId)
               read == [ts EXCEPT !.reads = @ + 1]
           IN
           IF user = <<>>
           THEN Out(db, Respond(read, "NotFound"))
           ELSE Out(db, [read EXCEPT !.pc = op \o ":cacheSet",
                                     !.upd = getProfile(user[1])])
      [] ts.pc = op \o ":cacheSet" ->
           Out([db EXCEPT !.cache = cacheSet(@, cacheKey, ts.upd, ts.req.cacheUp)],
               Respond(CacheCall(ts, "set", cacheKey, OneHour), "OK"))

createUser(db, ts) ==
    LET r == ts.req
        n == db.nextUserId
        user == NewUser(n, r.body.name[1], r.body.role[1], r.body.password[1])
    IN Out([db EXCEPT
              !.users = [i \in DOMAIN db.users \cup {n} |->
                            IF i = n THEN user ELSE db.users[i]],
              !.nextUserId = n + 1],
           Respond([ts EXCEPT !.doc = user, !.writes = Append(@, n)], "Created"))

updateDetails(db, ts) ==
    LET r == ts.req
        id == r.user.id
    IN
    CASE ts.pc = "updateDetails:findByIdAndUpdate" ->
           IF id \notin DOMAIN db.users
           THEN Out(db, Respond(ts, "NotFound"))
           ELSE LET user == [db.users[id] EXCEPT
                               !.name = IF r.body.name # <<>> THEN r.body.name[1] ELSE @]
                IN Out([db EXCEPT !.users = [@ EXCEPT ![id] = user]],
                       [ts EXCEPT !.pc = "updateDetails:clearByPattern", !.doc = user,
                                  !.writes = Append(@, id)])
      [] ts.pc = "updateDetails:clearByPattern" ->
           Out([db EXCEPT !.cache = clearByPattern(@, OwnKeysPattern(id), ts.req.cacheUp)],
               Respond(CacheCall(ts, "clearByPattern", OwnKeysPattern(id), 0), "OK"))

updatePassword(db, ts) ==
    LET r == ts.req
        id == r.user.id
    IN
    CASE ts.pc = "updatePassword:findById" ->
           LET user == findById(db.users, id) IN
           IF user = <<>>
           THEN Out(db, Respond(ts, "NotFound"))
           ELSE Out(db, [ts EXCEPT !.pc = "updatePassword:matchPassword",
                                   !.doc = user[1]])
      [] ts.pc = "updatePassword:matchPassword" ->
           IF ~matchPassword(r.body.currentPassword[1], ts.doc.password)
           THEN Out(db, Respond(ts, "Unauthorized"))
           ELSE Out(db, [ts EXCEPT !.pc = "updatePassword:save"])
      [] ts.pc = "updatePassword:save" ->
           Out([db EXCEPT !.users = [@ EXCEPT ![id].password = Hash(r.body.password[1])]],
               [ts EXCEPT !.pc = "updatePassword:clearByPattern",
                          !.writes = Append(@, id)])
      [] ts.pc = "updatePassword:clearByPattern" ->
           Out([db EXCEPT !.cache = clearByPattern(@, OwnKeysPattern(id), ts.req.cacheUp)],
               Respond(CacheCall(ts, "clearByPattern", OwnKeysPattern(id), 0), "OK"))

\* forgotPassword: the account is named by req.body.email, here by its id;
\* the token is req.name[1]
forgotPassword(db, ts) ==
    LET r == ts.req IN
    CASE ts.pc = "forgotPassword:findOne" ->
           IF r.id \notin DOMAIN db.users
           THEN Out(db, Respond(ts, "OK"))
           ELSE Out(db, [ts EXCEPT !.pc = "forgotPassword:save"])
      [] ts.pc = "forgotPassword:save" ->
           Out([db EXCEPT !.users =
                   [@ EXCEPT ![r.id].resetPasswordToken = <<Digest(r.name[1])>>]],
               Respond([ts EXCEPT !.writes = Append(@, r.id)], "OK"))

\* resetPassword: req.params.resettoken is req.name[1]; body.late says that
\* resetPasswordExpire has passed
resetPassword(db, ts) ==
    LET r == ts.req IN
    CASE ts.pc = "resetPassword:findOne" ->
           LET found == {i \in DOMAIN db.users :
                           /\ db.users[i].resetPasswordToken = <<Digest(r.name[1])>>
                           /\ r.body.late = <<>>}
           IN IF found = {}
              THEN Out(db, Respond(ts, "BadRequest"))
              ELSE Out(db, [ts EXCEPT !.pc = "resetPassword:save",
                                      !.doc = db.users[CHOOSE i \in found : TRUE]])
      [] ts.pc = "resetPassword:save" ->
           Out([db EXCEPT !.users = [@ EXCEPT ![ts.doc.id] =
                   [@ EXCEPT !.password = Hash(r.body.password[1]),
                             !.resetPasswordToken = <<>>]]],
               [ts EXCEPT !.pc = "resetPassword:clearByPattern",
                          !.writes = Append(@, ts.doc.id)])
      [] ts.pc = "resetPassword:clearByPattern" ->
           Out([db EXCEPT !.cache = clearByPattern(@, OwnKeysPattern(ts.doc.id), ts.req.cacheUp)],
               Respond(CacheCall(ts, "clearByPattern", OwnKeysPattern(ts.doc.id), 0),
                       "OK"))

\* the two clearByPattern calls that close updateUser, deleteUser, changeUserRole
clearUserKeys(db, ts, res) ==
    LET op == ts.req.op
        userId == ts.req.id
    IN IF ts.pc = op \o ":clearByPattern"
       THEN Out([db EXCEPT !.cache = clearByPattern(@, OwnKeysPattern(userId), ts.req.cacheUp)],
                [CacheCall(ts, "clearByPattern", OwnKeysPattern(userId), 0)
                    EXCEPT !.pc = op \o ":clearByPattern2"])
       ELSE Out([db EXCEPT !.cache = clearByPattern(@, AdminUserKey(userId), ts.req.cacheUp)],
                Respond(CacheCall(ts, "clearByPattern", AdminUserKey(userId), 0), res))

\* updateUser: a truthy req.body.password is deleted from the body
updateUser(db, ts) ==
    LET r == ts.req IN
    IF ts.pc = "updateUser:findByIdAndUpdate"
    THEN IF r.id \notin DOMAIN db.users
         THEN Out(db, Respond(ts, "NotFound"))
         ELSE LET user == [db.users[r.id] EXCEPT
                             !.name = IF r.body.name # <<>> THEN r.body.name[1] ELSE @,
                             !.role = IF r.body.role # <<>> THEN r.body.role[1] ELSE @]
              IN Out([db EXCEPT !.users = [@ EXCEPT ![r.id] = user]],
                     [ts EXCEPT !.pc = "updateUser:clearByPattern", !.doc = user,
                                !.writes = Append(@, r.id)])
    ELSE clearUserKeys(db, ts, "OK")

deleteUser(db, ts) ==
    LET r == ts.req IN
    CASE ts.pc = "deleteUser:findById" ->
           IF r.id = r.user.id
           THEN Out(db, Respond(ts, "BadRequest"))
           ELSE LET user == findById(db.users, r.id) IN
                IF user = <<>>
                THEN Out(db, Respond(ts, "NotFound"))
                ELSE Out(db, [ts EXCEPT !.pc = "deleteUser:save", !.doc = user[1]])
      [] ts.pc = "deleteUser:save" ->
           Out([db EXCEPT !.users = [@ EXCEPT ![r.id].isActive = FALSE]],
               [ts EXCEPT !.pc = "deleteUser:clearByPattern",
                          !.writes = Append(@, r.id)])
      [] OTHER -> clearUserKeys(db, ts, "OK")

changeUserRole(db, ts) ==
    LET r == ts.req IN
    CASE ts.pc = "changeUserRole:findById" ->
           IF r.body.role = <<>> \/ r.body.role[1] \notin {"student", "faculty", "admin"}
           THEN Out(db, Respond(ts, "BadRequest"))
           ELSE IF r.id = r.user.id
           THEN Out(db, Respond(ts, "BadRequest"))
           ELSE LET user == findById(db.users, r.id) IN
                IF user = <<>>
                THEN Out(db, Respond(ts, "NotFound"))
                ELSE Out(db, [ts EXCEPT !.pc = "changeUserRole:save", !.doc = user[1]])
      [] ts.pc = "changeUserRole:save" ->
           Out([db EXCEPT !.users = [@ EXCEPT ![r.id].role = r.body.role[1]]],
               [ts EXCEPT !.pc = "changeUserRole:clearByPattern",
                          !.writes = Append(@, r.id)])
      [] OTHER -> clearUserKeys(db, ts, "OK")

\* ------------------------------------------------------------- running a request
Finished(ts) == ts.pc \in {"idle", "done"}

\* one step of a request: from one await to the next
Step(db, ts) ==
    CASE ts.req.op = "create" -> createCategory(db, ts)
      [] ts.req.op = "move"   -> moveCategory(db, ts)
      [] ts.req.op = "update" -> updateCategory(db, ts)
      [] ts.req.op = "delete" -> deleteCategory(db, ts)
      [] ts.req.op = "createTag" -> createTag(db, ts)
      [] ts.req.op = "updateTag" -> updateTag(db, ts)
      [] ts.req.op = "deleteTag" -> deleteTag(db, ts)
      [] ts.req.op = "incrementUsage" -> incrementUsage(db, ts)
      [] ts.req.op = "getResource" -> getResource(db, ts)
      [] ts.req.op \in {"getCategories", "getTags"} -> getListing(db, ts)
      [] ts.req.op = "globalSearch" -> globalSearch(db, ts)
      [] ts.req.op \in {"getMe", "getUser"} -> getProfileCached(db, ts)
      [] ts.req.op = "createUser" -> createUser(db, ts)
      [] ts.req.op = "updateDetails" -> updateDetails(db, ts)
      [] ts.req.op = "updatePassword" -> updatePassword(db, ts)
      [] ts.req.op = "forgotPassword" -> forgotPassword(db, ts)
      [] ts.req.op = "resetPassword" -> resetPassword(db, ts)
      [] ts.req.op = "updateUser" -> updateUser(db, ts)
      [] ts.req.op = "deleteUser" -> deleteUser(db, ts)
      [] ts.req.op = "changeUserRole" -> changeUserRole(db, ts)
      [] ts.req.op = "advancedSearch" -> advancedSearch(db, ts)
      [] ts.req.op = "createResource" -> createResource(db, ts)
      [] ts.req.op = "updateResource" -> updateResource(db, ts)
      [] ts.req.op = "deleteResource" -> deleteResource(db, ts)

\* a request run to completion with no other request in between
RECURSIVE Run(_, _)
Run(db, ts) ==
    IF ts.pc \in {"done", "diverged"} THEN Out(db, ts)
    ELSE LET o == Step(db, ts) IN Run(o.db, o.ts)

\* ------------------------------------------------------------- state
VARIABLES
    cats,      \* PrimaryStore: the categories collection, id -> document
    nextId,    \* the next _id Category.create assigns
    catIndex,  \* SearchIndex: the categories index
    tags,      \* PrimaryStore: the tags collection, id -> document
    nextTagId, \* the next _id Tag.create assigns
    tagIndex,  \* SearchIndex: the tags index
    resources, \* PrimaryStore: the resources collection, id -> document
    nextResourceId,   \* the next _id Resource.create assigns
    users,     \* PrimaryStore: the users collection, id -> document
    nextUserId,       \* the next _id User.create assigns
    cache,     \* Cache: key -> value
    detached,  \* promises started by a handler and not awaited by it
    task,      \* the requests being handled
    nreq,      \* requests started so far
    script     \* how much of Scenario the requests so far have followed

vars ==
    <<cats, nextId, catIndex, tags, nextTagId, tagIndex, resources, nextResourceId,
      users, nextUserId, cache, detached, task, nreq, script>>

Db ==
    [cats |-> cats, nextId |-> nextId, catIndex |-> catIndex,
     tags |-> tags, nextTagId |-> nextTagId, tagIndex |-> tagIndex,
     resources |-> resources, nextResourceId |-> nextResourceId,
     users |-> users, nextUserId |-> nextUserId,
     cache |-> cache, detached |-> detached]

SetDb(db) ==
    /\ cats' = db.cats
    /\ nextId' = db.nextId
    /\ catIndex' = db.catIndex
    /\ tags' = db.tags
    /\ nextTagId' = db.nextTagId
    /\ tagIndex' = db.tagIndex
    /\ resources' = db.resources
    /\ nextResourceId' = db.nextResourceId
    /\ users' = db.users
    /\ nextUserId' = db.nextUserId
    /\ cache' = db.cache
    /\ detached' = db.detached

\* the scenario of the testable properties: create root A, B under A, C under B,
\* move B to the root, move A under C
OffScript == 0 - 1
Scenario ==
    << Request("create", NULL, <<"a">>, NULL, NoBody, TRUE),
       Request("create", NULL, <<"b">>, 1, NoBody, TRUE),
       Request("create", NULL, <<"c">>, 2, NoBody, TRUE),
       Request("move", 2, <<>>, ROOT, NoBody, TRUE),
       Request("move", 1, <<>>, 3, NoBody, TRUE) >>

Follows(k, r) ==
    IF k # OffScript /\ k < Len(Scenario) /\ [r EXCEPT !.esUp = TRUE] = Scenario[k + 1]
    THEN k + 1 ELSE OffScript

CategoryNames == { <<"a">>, <<"b">>, <<"c">>, <<"a", " ">>, <<"A">> }

UpdateBodies ==
    { [NoBody EXCEPT !.name = <<nm>>] : nm \in CategoryNames }
      \cup { [NoBody EXCEPT !.parent = <<p>>] : p \in {NULL, 1} }
      \cup { [NoBody EXCEPT !.ancestors = <<a>>] : a \in {<<>>} }
      \cup { [NoBody EXCEPT !.resourceCount = <<k>>] : k \in {0, 1} }

Init ==
    /\ cats = EmptyStore
    /\ nextId = 1
    /\ catIndex = EmptyIndex
    /\ tags = EmptyStore
    /\ nextTagId = 1
    /\ tagIndex = EmptyIndex
    /\ resources = EmptyStore
    /\ nextResourceId = 1
    /\ users = SeededUsers
    /\ nextUserId = 2
    /\ cache = EmptyCache
    /\ detached = <<>>
    /\ task = [t \in Tasks |-> IdleTask]
    /\ nreq = 0
    /\ script = 0

\* ------------------------------------------------------------- one at a time
Serve(r, limit) ==
    /\ \A t \in Tasks : Finished(task[t])
    /\ nreq < limit
    /\ LET o == Run(Db, NewTask(r, Db)) IN
         /\ SetDb(o.db)
         /\ task' = [task EXCEPT ![1] = o.ts]
    /\ nreq' = nreq + 1
    /\ script' = Follows(script, r)

CreateCategory(limit, Up) ==
    \E name \in CategoryNames, parent \in {NULL, NoSuchId} \cup DOMAIN cats,
       esUp \in Up :
        /\ nextId <= MaxCats
        /\ Serve(Request("create", NULL, name, parent, NoBody, esUp), limit)

MoveCategory(limit, Up) ==
    \E id \in DOMAIN cats \cup {NoSuchId},
       newParentId \in {ROOT, NoSuchId} \cup DOMAIN cats, esUp \in Up :
        Serve(Request("move", id, <<>>, newParentId, NoBody, esUp), limit)

UpdateCategory(limit, Up) ==
    \E id \in DOMAIN cats \cup {NoSuchId}, body \in UpdateBodies, esUp \in Up :
        Serve(Request("update", id, <<>>, NULL, body, esUp), limit)

DeleteCategory(limit, Up) ==
    \E id \in DOMAIN cats \cup {NoSuchId}, esUp \in Up :
        Serve(Request("delete", id, <<>>, NULL, NoBody, esUp), limit)

\* the SearchIndex answering every call
Healthy == {TRUE}
\* the SearchIndex answering or failing, call by call
Flaky == BOOLEAN

NextTree == CreateCategory(TreeRequests, Healthy) \/ MoveCategory(TreeRequests, Healthy)

SpecTree == Init /\ [][NextTree]_vars

Next ==
    \/ CreateCategory(MaxRequests, Healthy)
    \/ MoveCategory(MaxRequests, Healthy)
    \/ UpdateCategory(MaxRequests, Healthy)
    \/ DeleteCategory(MaxRequests, Healthy)

Spec == Init /\ [][Next]_vars

\* ------------------------------------------------------------- reading the tree
\* a value no ancestors array holds: the parent links do not end at a root
Broken == <<NoSuchId>>

\* the categories from the root down to the parent of `id`, by parent links
RECURSIVE chain(_, _, _)
chain(c, id, fuel) ==
    LET p == c[id].parent IN
    IF p = NULL THEN <<>>
    ELSE IF fuel = 0 \/ p \notin DOMAIN c THEN Broken
    ELSE LET up == chain(c, p, fuel - 1) IN
         IF up = Broken THEN Broken ELSE Append(up, p)

ParentChain(c, id) == chain(c, id, Cardinality(DOMAIN c))

\* `b` is reached from `a` by one or more child links
RECURSIVE reaches(_, _, _, _)
reaches(c, b, a, fuel) ==
    /\ fuel > 0
    /\ b \in DOMAIN c
    /\ c[b].parent # NULL
    /\ \/ c[b].parent = a
       \/ reaches(c, c[b].parent, a, fuel - 1)

IsDescendant(c, b, a) == reaches(c, b, a, Cardinality(DOMAIN c))

\* the tree position of every category
Tree(c) == [i \in DOMAIN c |-> [parent |-> c[i].parent, ancestors |-> c[i].ancestors]]

\* ------------------------------------------------------------- C1
\* C1: after any sequence of createCategory and moveCategory requests, each run
\* to completion before the next starts, the ancestors of every category are
\* exactly its parent chain from the root down to its immediate parent.
C1_AncestorsAreParentChain ==
    \A id \in DOMAIN cats : cats[id].ancestors = ParentChain(cats, id)

\* a move that re-parented a category with a child below it has returned
C1_Witness ==
    /\ task[1].pc = "done"
    /\ task[1].req.op = "move"
    /\ task[1].res = "OK"
    /\ Len(task[1].writes) >= 2
    /\ \E id \in DOMAIN cats : Len(cats[id].ancestors) = 2

\* ------------------------------------------------------------- C3
\* C3 as stated: after create A, B under A, C under B and moving B to the root,
\* moveCategory(A, C) fails with CycleError and leaves the tree as it was.
C3_MoveUnderFormerDescendantFails ==
    script = Len(Scenario) =>
        /\ task[1].res = "CycleError"
        /\ Tree(cats) = Tree(task[1].pre.cats)
        /\ cats[1].ancestors = <<>>

\* C3, amended: moving B to the root leaves B.ancestors = [] and C.ancestors = [B];
\* C is then no descendant of A, so moveCategory(A, C) succeeds and gives
\* A.parent = C, A.ancestors = [B, C], B and C staying where they were.
C3_MoveUnderFormerDescendantSucceeds ==
    /\ script = Len(Scenario) - 1 =>
          /\ task[1].res = "OK"
          /\ cats[2].parent = NULL /\ cats[2].ancestors = <<>>
          /\ cats[3].parent = 2 /\ cats[3].ancestors = <<2>>
          /\ cats[1].parent = NULL /\ cats[1].ancestors = <<>>
    /\ script = Len(Scenario) =>
          /\ task[1].res = "OK"
          /\ cats[1].parent = 3 /\ cats[1].ancestors = <<2, 3>>
          /\ cats[2].parent = NULL /\ cats[2].ancestors = <<>>
          /\ cats[3].parent = 2 /\ cats[3].ancestors = <<2>>

\* the whole scenario has run
C3_Witness ==
    /\ script = Len(Scenario)
    /\ task[1].pc = "done"
    /\ task[1].req.op = "move" /\ task[1].req.id = 1 /\ task[1].req.parent = 3

\* ------------------------------------------------------------- C2
\* the request of task t has come to its end (or will never)
Over(t) == task[t].pc \in {"done", "diverged"}

\* C2: in any state reached by category requests run one at a time,
\* moveCategory(A, B) with B = A or B a descendant of A fails with CycleError and
\* leaves the parent and ancestors of every category unchanged.
C2_MoveUnderDescendantRejected ==
    \A t \in Tasks :
        LET ts == task[t]
            before == ts.pre.cats
        IN ( /\ Over(t)
             /\ ts.req.op = "move"
             /\ ts.req.id \in DOMAIN before
             /\ ts.req.parent \in DOMAIN before
             /\ \/ ts.req.parent = ts.req.id
                \/ IsDescendant(before, ts.req.parent, ts.req.id) )
           => /\ ts.res = "CycleError"
              /\ Tree(cats) = Tree(before)

\* ------------------------------------------------------------- C5
\* C5: deleteCategory removes a category exactly when it has no child and
\* resourceCount = 0; with a child it fails with HasChildren, with
\* resourceCount > 0 with NotEmpty, the store unchanged in both; after a
\* successful delete the category is gone.
C5_DeleteRemovesEmptyLeaf ==
    \A t \in Tasks :
        LET ts == task[t]
            before == ts.pre.cats
            id == ts.req.id
        IN (Over(t) /\ ts.req.op = "delete" /\ id \in DOMAIN before)
           => IF existsChild(before, id)
              THEN ts.res = "HasChildren" /\ cats = before
              ELSE IF before[id].resourceCount > 0
              THEN ts.res = "NotEmpty" /\ cats = before
              ELSE ts.res = "OK" /\ id \notin DOMAIN cats

\* ------------------------------------------------------------- C8
\* the SearchIndex calls of a request that name document `id`
CallsFor(ts, id) == {k \in 1 .. Len(ts.esLog) : ts.esLog[k].id = id}

\* C8: after a successful moveCategory, a SearchIndex write has been attempted
\* once for the moved category and once for each of its strict descendants.
C8_MoveIndexesSubtree ==
    \A t \in Tasks :
        LET ts == task[t] IN
        (ts.pc = "done" /\ ts.req.op = "move" /\ ts.res = "OK")
           => \A id \in DOMAIN cats :
                 (id = ts.req.id \/ IsDescendant(cats, id, ts.req.id))
                    => Cardinality(CallsFor(ts, id)) = 1

\* ------------------------------------------------------------- interleaved requests
\* Node runs a handler up to its next await and then lets another request run:
\* a request is begun in one action and advanced one await at a time.
MaxInFlight == 2    \* requests of one behaviour of SpecConcurrent

Letters == <<"a", "b", "c", "d", "e">>

\* the stores createCategory requests alone leave behind: ids in order of
\* creation, every parent older than its child
RECURSIVE createdStores(_)
createdStores(n) ==
    IF n = 0 THEN {EmptyStore}
    ELSE { [i \in 1 .. n |->
              IF i < n THEN c[i]
              ELSE NewDoc(n, <<Letters[n]>>, p,
                          IF p = NULL THEN <<>> ELSE childAncestors(c[p].ancestors, p))]
           : c \in createdStores(n - 1), p \in {NULL} \cup 1 .. (n - 1) }

InitCreated ==
    /\ \E n \in 0 .. MaxCats :
          /\ cats \in createdStores(n)
          /\ nextId = n + 1
    /\ catIndex = EmptyIndex
    /\ tags = EmptyStore
    /\ nextTagId = 1
    /\ tagIndex = EmptyIndex
    /\ resources = EmptyStore
    /\ nextResourceId = 1
    /\ users = SeededUsers
    /\ nextUserId = 2
    /\ cache = EmptyCache
    /\ detached = <<>>
    /\ task = [t \in Tasks |-> IdleTask]
    /\ nreq = 0
    /\ script = OffScript

\* createCategory requests that have not yet inserted their document
CreatesInFlight ==
    Cardinality({t \in Tasks : task[t].pc \in
                    {"create:findOne", "create:findParent", "create:create"}})

Begin(t, r) ==
    /\ Finished(task[t])
    /\ nreq < MaxInFlight
    /\ task' = [task EXCEPT ![t] = NewTask(r, Db)]
    /\ nreq' = nreq + 1
    /\ script' = OffScript
    /\ UNCHANGED <<cats, nextId, catIndex, tags, nextTagId, tagIndex, resources,
                   nextResourceId, users, nextUserId, cache, detached>>

BeginCreate ==
    \E t \in Tasks, name \in CategoryNames, parent \in {NULL} \cup DOMAIN cats :
        /\ nextId + CreatesInFlight <= MaxCats
        /\ Begin(t, Request("create", NULL, name, parent, NoBody, TRUE))

BeginMove ==
    \E t \in Tasks, id \in DOMAIN cats, newParentId \in {ROOT} \cup DOMAIN cats :
        Begin(t, Request("move", id, <<>>, newParentId, NoBody, TRUE))

BeginDelete ==
    \E t \in Tasks, id \in DOMAIN cats :
        Begin(t, Request("delete", id, <<>>, NULL, NoBody, TRUE))

\* the request of task t runs from the await it is stopped at to the next
Advance ==
    \E t \in Tasks :
        /\ task[t].pc \notin {"idle", "done", "diverged"}
        /\ LET o == Step(Db, task[t]) IN
             /\ SetDb(o.db)
             /\ task' = [task EXCEPT ![t] = o.ts]
        /\ UNCHANGED <<nreq, script>>

NextConcurrent == BeginCreate \/ BeginMove \/ BeginDelete \/ Advance

SpecConcurrent == InitCreated /\ [][NextConcurrent]_vars

\* ------------------------------------------------------------- C4
\* C4 (I1): in every reachable state, under any interleaving of concurrent
\* createCategory, moveCategory and deleteCategory requests, no category is its
\* own ancestor by parent links.
C4_Acyclic ==
    \A id \in DOMAIN cats : ~IsDescendant(cats, id, id)

\* ------------------------------------------------------------- tag requests
Member == [id |-> 2, role |-> "user"]

TagNames == { <<"x">>, <<"X", " ">>, <<"y">> }

TagBodies ==
    { [NoBody EXCEPT !.name = <<nm>>] : nm \in TagNames }
      \cup { [NoBody EXCEPT !.usageCount = <<k>>] : k \in {0} }

TagRequest(op, id, name, body, user, esUp) ==
    [Request(op, id, name, NULL, body, esUp) EXCEPT !.user = user]

CreateTag(limit, Up) ==
    \E name \in TagNames, user \in {Admin, Member}, esUp \in Up :
        /\ nextTagId <= MaxTags
        /\ Serve(TagRequest("createTag", NULL, name, NoBody, user, esUp), limit)

UpdateTag(limit, Up) ==
    \E id \in DOMAIN tags \cup {NoSuchId}, body \in TagBodies,
       user \in {Admin, Member}, esUp \in Up :
        Serve(TagRequest("updateTag", id, <<>>, body, user, esUp), limit)

DeleteTag(limit, Up) ==
    \E id \in DOMAIN tags \cup {NoSuchId}, user \in {Admin, Member}, esUp \in Up :
        Serve(TagRequest("deleteTag", id, <<>>, NoBody, user, esUp), limit)

IncrementUsage(limit, Up) ==
    \E id \in DOMAIN tags \cup {NoSuchId}, user \in {Admin, Member}, esUp \in Up :
        Serve(TagRequest("incrementUsage", id, <<>>, NoBody, user, esUp), limit)

\* ------------------------------------------------------------- failing SearchIndex
SyncRequests == 3   \* requests of one behaviour of SpecSync

NextSync ==
    \/ CreateCategory(SyncRequests, Flaky)
    \/ MoveCategory(SyncRequests, Flaky)
    \/ UpdateCategory(SyncRequests, Flaky)
    \/ DeleteCategory(SyncRequests, Flaky)
    \/ CreateTag(SyncRequests, Flaky)
    \/ UpdateTag(SyncRequests, Flaky)
    \/ DeleteTag(SyncRequests, Flaky)
    \/ IncrementUsage(SyncRequests, Flaky)

SpecSync == Init /\ [][NextSync]_vars

\* ------------------------------------------------------------- resource requests
ResourceRequests == 3   \* requests of one behaviour of SpecResource

ResourceBodies ==
    { [NoBody EXCEPT !.title = <<t>>] : t \in {"t1", "t2"} }
      \cup { [NoBody EXCEPT !.visibility = <<v>>] : v \in {"public", "private"} }
      \cup { [NoBody EXCEPT !.viewCount = <<k>>] : k \in {0, 1} }

GetResource ==
    \E id \in DOMAIN resources \cup {NoSuchId}, user \in {Admin, Member, Guest},
       noStats \in BOOLEAN :
        Serve(ResourceRequest("getResource", id, NoBody, user, noStats), ResourceRequests)

CreateResource ==
    \E visibility \in {"public", "private"}, user \in {Admin, Member} :
        /\ nextResourceId <= MaxResources
        /\ Serve(ResourceRequest("createResource", NULL,
                    [NoBody EXCEPT !.title = <<"t1">>, !.visibility = <<visibility>>],
                    user, FALSE), ResourceRequests)

UpdateResource ==
    \E id \in DOMAIN resources \cup {NoSuchId}, body \in ResourceBodies,
       user \in {Admin, Member} :
        Serve(ResourceRequest("updateResource", id, body, user, FALSE), ResourceRequests)

DeleteResource ==
    \E id \in DOMAIN resources \cup {NoSuchId}, user \in {Admin, Member} :
        Serve(ResourceRequest("deleteResource", id, NoBody, user, FALSE),
              ResourceRequests)

\* the promise left behind by a getResource runs to its next await
ViewCountUpdate ==
    \E k \in DOMAIN detached :
        /\ \A t \in Tasks : Finished(task[t])
        /\ SetDb(viewCountUpdate(Db, k))
        /\ UNCHANGED <<task, nreq, script>>

\* an entry of the Cache reaches its expiry
Expire ==
    \E key \in DOMAIN cache :
        /\ \A t \in Tasks : Finished(task[t])
        /\ cache' = cacheDel(cache, key, TRUE)
        /\ UNCHANGED <<cats, nextId, catIndex, tags, nextTagId, tagIndex, resources,
                       nextResourceId, users, nextUserId, detached, task, nreq,
                       script>>

NextResource ==
    \/ GetResource
    \/ CreateResource
    \/ UpdateResource
    \/ DeleteResource
    \/ ViewCountUpdate
    \/ Expire

SpecResource == Init /\ [][NextResource]_vars

\* ------------------------------------------------------------- C6
CategoryOps == {"create", "move", "update", "delete"}

Success(ts) == ts.res \in {"Created", "OK"}

\* the PrimaryStore step of the request has been carried out
Committed(ts) == ts.writes # <<>>

\* what the request wrote is what PrimaryStore now holds
Visible(ts) ==
    LET id == ts.writes[1] IN
    CASE ts.req.op = "create" -> id \in DOMAIN cats /\ cats[id] = ts.doc
      [] ts.req.op = "move" ->
           /\ id \in DOMAIN cats
           /\ cats[id].parent = ts.upd.parent
           /\ cats[id].ancestors = ts.upd.ancestors
      [] ts.req.op = "update" -> id \in DOMAIN cats /\ cats[id] = ts.upd
      [] ts.req.op = "delete" -> id \notin DOMAIN cats
      [] ts.req.op = "createTag" -> id \in DOMAIN tags /\ tags[id] = ts.doc
      [] ts.req.op = "updateTag" -> id \in DOMAIN tags /\ tags[id] = ts.upd
      [] ts.req.op = "deleteTag" -> id \notin DOMAIN tags
      [] ts.req.op = "incrementUsage" ->
           id \in DOMAIN tags /\ tags[id].usageCount = ts.upd.usageCount

\* C6: for every category and tag mutation, when every SearchIndex call of the
\* request fails, the request succeeds exactly when its PrimaryStore step did,
\* and the write stays in PrimaryStore, visible to the next read.
C6_IndexFailureDoesNotFailRequest ==
    \A t \in Tasks :
        LET ts == task[t] IN
        ( /\ ts.pc = "done"
          /\ ts.req.op \in CategoryOps \cup TagOps
          /\ \A k \in DOMAIN ts.esLog : ~ts.esLog[k].ok )
        => /\ Success(ts) <=> Committed(ts)
           /\ Committed(ts) => Visible(ts)

\* a mutation whose only SearchIndex call failed has answered success
C6_Witness ==
    \E t \in Tasks :
        /\ task[t].pc = "done"
        /\ task[t].req.op \in {"move", "incrementUsage"}
        /\ Len(task[t].esLog) = 1
        /\ ~task[t].esLog[1].ok /\ task[t].esLog[1].logged
        /\ Success(task[t])
        /\ Visible(task[t])

\* ------------------------------------------------------------- C9
\* C9: for every successful PrimaryStore write to the entity a command targets
\* (category, tag, resource), an index write for the same id is attempted after
\* the PrimaryStore write, and it succeeds or its failure is logged.
C9_WriteIsFollowedByIndexWrite ==
    \A t \in Tasks :
        LET ts == task[t] IN
        (ts.pc = "done" /\ Committed(ts))
        => \E k \in DOMAIN ts.esLog :
              /\ ts.esLog[k].id = ts.writes[1]
              /\ ts.esLog[k].after >= 1
              /\ ts.esLog[k].ok \/ ts.esLog[k].logged

\* ------------------------------------------------------------- search requests
SearchRequests == 3   \* requests of one behaviour of SpecSearch

Queries == { <<>>, <<"a">>, <<"X">> }

SearchRequest(op, q, esUp) == Request(op, NULL, q, NULL, NoBody, esUp)

GetCategories ==
    \E q \in Queries, esUp \in BOOLEAN :
        /\ Serve(SearchRequest("getCategories", q, esUp), SearchRequests)

GetTags ==
    \E q \in Queries, esUp \in BOOLEAN :
        /\ Serve(SearchRequest("getTags", q, esUp), SearchRequests)

GlobalSearch ==
    \E q \in Queries, esUp \in BOOLEAN :
        /\ Serve(SearchRequest("globalSearch", q, esUp), SearchRequests)

AdvancedSearch ==
    \E q \in Queries, esUp \in BOOLEAN :
        /\ Serve(SearchRequest("advancedSearch", q, esUp), SearchRequests)

NextSearch ==
    \/ CreateCategory(SearchRequests, Flaky)
    \/ CreateTag(SearchRequests, Flaky)
    \/ GetCategories
    \/ GetTags
    \/ GlobalSearch
    \/ AdvancedSearch

SpecSearch == Init /\ [][NextSearch]_vars

\* ------------------------------------------------------------- C7
SearchOps == {"getCategories", "getTags", "globalSearch", "advancedSearch"}

\* the keys of the response the SearchIndex path of each operation gives
PrimaryShape(op) ==
    CASE op \in {"getCategories", "getTags"} -> ListingShape
      [] op = "globalSearch" -> GlobalShape
      [] op = "advancedSearch" -> AdvancedShape

\* the entities of PrimaryStore that the operation covers and the query matches
PrimaryItems(op, q) ==
    CASE op = "getCategories" -> Items("category", findText(cats, q))
      [] op = "getTags" -> Items("tag", findText(tags, q))
      [] OTHER -> Items("tag", findText(tags, q))

\* C7: with the SearchIndex disabled, every search operation (category or tag
\* listing with a query, globalSearch, advancedSearch) answers without error,
\* with the matching items of PrimaryStore, the response shape of the
\* SearchIndex path and no facets.
C7_SearchFallsBackToPrimaryStore ==
    \A t \in Tasks :
        LET ts == task[t] IN
        ( /\ ts.pc = "done"
          /\ ts.req.op \in SearchOps
          /\ ts.req.name # <<>>
          /\ ~ts.req.esUp )
        => /\ ts.res = "OK"
           /\ ts.out.items = PrimaryItems(ts.req.op, ts.req.name)
           /\ ts.out.facets = {}
           /\ ts.out.shape = PrimaryShape(ts.req.op)

\* ------------------------------------------------------------- user requests
UserRequests == 3   \* requests of one behaviour of SpecUsers

UserNames == {"n1", "n2"}
Passwords == {"p0", "p1"}
Tokens == {"k1"}

\* req.user of a request carrying the token of user `id`
Caller(id) == [id |-> id, role |-> users[id].role]

UserRequest(op, id, token, body, user) ==
    [Request(op, id, token, NULL, body, TRUE) EXCEPT !.user = user]

CreateUser ==
    \E name \in UserNames, role \in {"student", "admin"} :
        /\ nextUserId <= MaxUsers
        /\ Serve(UserRequest("createUser", NULL, <<>>,
                    [NoBody EXCEPT !.name = <<name>>, !.role = <<role>>,
                                   !.password = <<"p1">>], Admin), UserRequests)

GetMe ==
    \E u \in DOMAIN users :
        Serve(UserRequest("getMe", NULL, <<>>, NoBody, Caller(u)), UserRequests)

GetUser ==
    \E id \in DOMAIN users \cup {NoSuchId} :
        Serve(UserRequest("getUser", id, <<>>, NoBody, Admin), UserRequests)

UpdateDetails ==
    \E u \in DOMAIN users, name \in UserNames :
        Serve(UserRequest("updateDetails", NULL, <<>>,
                 [NoBody EXCEPT !.name = <<name>>], Caller(u)), UserRequests)

UpdatePassword ==
    \E u \in DOMAIN users, current \in Passwords, new \in Passwords :
        Serve(UserRequest("updatePassword", NULL, <<>>,
                 [NoBody EXCEPT !.currentPassword = <<current>>, !.password = <<new>>],
                 Caller(u)), UserRequests)

ForgotPassword ==
    \E id \in DOMAIN users \cup {NoSuchId}, token \in Tokens :
        Serve(UserRequest("forgotPassword", id, <<token>>, NoBody, Guest), UserRequests)

ResetPassword ==
    \E token \in Tokens, late \in {<<>>, <<TRUE>>} :
        /\ Serve(UserRequest("resetPassword", NULL, <<token>>,
                    [NoBody EXCEPT !.password = <<"p1">>, !.late = late], Guest),
                 UserRequests)

UpdateUser ==
    \E id \in DOMAIN users \cup {NoSuchId}, name \in UserNames :
        Serve(UserRequest("updateUser", id, <<>>,
                 [NoBody EXCEPT !.name = <<name>>], Admin), UserRequests)

DeleteUser ==
    \E id \in DOMAIN users \cup {NoSuchId} :
        Serve(UserRequest("deleteUser", id, <<>>, NoBody, Admin), UserRequests)

ChangeUserRole ==
    \E id \in DOMAIN users \cup {NoSuchId}, role \in {"faculty", "root"} :
        Serve(UserRequest("changeUserRole", id, <<>>,
                 [NoBody EXCEPT !.role = <<role>>], Admin), UserRequests)

NextUsers ==
    \/ CreateUser
    \/ GetMe
    \/ GetUser
    \/ UpdateDetails
    \/ UpdatePassword
    \/ ForgotPassword
    \/ ResetPassword
    \/ UpdateUser
    \/ DeleteUser
    \/ ChangeUserRole
    \/ Expire

SpecUsers == Init /\ [][NextUsers]_vars

\* ------------------------------------------------------------- C10
UserMutations ==
    {"updateDetails", "updatePassword", "resetPassword", "updateUser", "deleteUser",
     "changeUserRole"}

\* C10: after any successful user mutation (updateDetails, updatePassword,
\* resetPassword, updateUser, deleteUser, changeUserRole), no cache key that
\* refers to the user (user:{id}:profile, admin:user:{id}) holds a profile
\* taken before the mutation: what such a key holds is the user's profile
\* as PrimaryStore has it.
C10_NoStaleUserCache ==
    \A t \in Tasks :
        LET ts == task[t] IN
        (ts.pc = "done" /\ ts.req.op \in UserMutations /\ ts.res = "OK")
        => LET id == ts.writes[1] IN
           \A key \in {ProfileKey(id), AdminUserKey(id)} \cap DOMAIN cache :
               cache[key] = getProfile(users[id])

\* ------------------------------------------------------------- C11
CachedReads == {"getResource", "getMe", "getUser"}

\* the Cache key a cache-checked read looks up
EntityKey(ts) ==
    CASE ts.req.op = "getResource" -> ResourceKey(ts.req.id)
      [] ts.req.op = "getMe" -> ProfileKey(ts.req.user.id)
      [] ts.req.op = "getUser" -> AdminUserKey(ts.req.id)

\* C11: a cache-checked read (getResource, getUser, getMe) that finds its key
\* in the Cache answers with the cached snapshot, and neither reads PrimaryStore
\* nor writes it, nor leaves behind a promise that will write it.
C11_CacheHitLeavesPrimaryStoreAlone ==
    \A t \in Tasks :
        LET ts == task[t] IN
        (ts.pc = "done" /\ ts.req.op \in CachedReads /\ ts.hit)
        => /\ ts.reads = 0
           /\ ts.writes = <<>>
           /\ ts.spawned = 0
           /\ ts.res = "OK" => ts.upd = ts.pre.cache[EntityKey(ts)]

\* ------------------------------------------------------------- cache-checked reads
\* the resource and user routes together
NextCached ==
    \/ GetResource
    \/ CreateResource
    \/ UpdateResource
    \/ DeleteResource
    \/ ViewCountUpdate
    \/ Expire
    \/ CreateUser
    \/ GetMe
    \/ GetUser
    \/ UpdateDetails
    \/ UpdateUser

SpecCached == Init /\ [][NextCached]_vars

\* ------------------------------------------------------------- C12
\* the id of the entity a cache-checked read asks for
EntityId(ts) == IF ts.req.op = "getMe" THEN ts.req.user.id ELSE ts.req.id

\* the collection it is read from, as the request found it
EntityStore(ts) ==
    IF ts.req.op = "getResource" THEN ts.pre.resources ELSE ts.pre.users

\* the view of a document that the read caches and returns
View(ts, doc) == IF ts.req.op = "getResource" THEN populate(doc) ELSE getProfile(doc)

\* the caller passes the visibility check of getResource
Permitted(ts, doc) ==
    ts.req.op = "getResource" => visibilityError(doc, ts.req.user) = ""

\* task t finishes a cache-checked read that missed the Cache in this step
MissServed(t) ==
    /\ task'[t] # task[t]
    /\ task'[t].pc = "done"
    /\ task'[t].req.op \in CachedReads
    /\ ~task'[t].hit

\* C12: a cache-checked read that misses the Cache, for an entity PrimaryStore
\* holds, leaves the entity's view under the entity's key, set with a finite
\* time-to-live, and returns that view (to a caller allowed to see it); for an
\* id PrimaryStore does not hold it answers NotFound and leaves the Cache as
\* it was.
C12_MissFillsCache ==
    [][\A t \in Tasks :
          MissServed(t) =>
             LET ts == task'[t]
                 id == EntityId(ts)
                 key == EntityKey(ts)
             IN IF id \in DOMAIN EntityStore(ts)
                THEN LET view == View(ts, EntityStore(ts)[id]) IN
                     /\ ts.reads = 1
                     /\ key \in DOMAIN cache' /\ cache'[key] = view
                     /\ \E k \in DOMAIN ts.cacheLog :
                           /\ ts.cacheLog[k].call = "set"
                           /\ ts.cacheLog[k].key = key
                           /\ ts.cacheLog[k].expiry \in 1 .. OneHour
                     /\ Permitted(ts, EntityStore(ts)[id])
                           => ts.res = "OK" /\ ts.upd = view
                ELSE /\ ts.res = "NotFound"
                     /\ cache' = cache]_vars

\* a read that missed has answered with the view it left in the Cache
C12_Witness ==
    \E t \in Tasks :
        LET ts == task[t] IN
        /\ ts.pc = "done" /\ ts.req.op \in CachedReads /\ ~ts.hit
        /\ ts.res = "OK" /\ ts.reads = 1
        /\ EntityKey(ts) \in DOMAIN cache /\ cache[EntityKey(ts)] = ts.upd
        /\ \E k \in DOMAIN ts.cacheLog : ts.cacheLog[k].call = "set"

\* ------------------------------------------------------------- mutations of every kind
\* category, tag, resource and user mutations, one request at a time
NextOrder ==
    \/ CreateCategory(SyncRequests, Healthy)
    \/ MoveCategory(SyncRequests, Healthy)
    \/ UpdateCategory(SyncRequests, Healthy)
    \/ CreateTag(SyncRequests, Healthy)
    \/ IncrementUsage(SyncRequests, Healthy)
    \/ CreateResource
    \/ UpdateResource
    \/ DeleteResource
    \/ UpdateDetails
    \/ UpdateUser

SpecOrder == Init /\ [][NextOrder]_vars

\* ------------------------------------------------------------- C13
\* the Cache calls that invalidate
Invalidations == {"del", "clearByPattern"}

\* the strict descendants of `id`, by parent links
Descendants(c, id) == {d \in DOMAIN c : IsDescendant(c, d, id)}

\* C13: within one mutation request every SearchIndex call comes after all the
\* PrimaryStore writes of the request (for moveCategory: the moved category
\* and each of its descendants), and every Cache invalidation comes after all
\* its PrimaryStore writes and SearchIndex calls.
C13_StoreThenIndexThenCache ==
    \A t \in Tasks :
        LET ts == task[t] IN
        ts.pc = "done" =>
           /\ \A k \in DOMAIN ts.esLog :
                 /\ ts.esLog[k].after = Len(ts.writes)
                 /\ ts.req.op = "move" =>
                       ts.esLog[k].after
                          = 1 + Cardinality(Descendants(ts.pre.cats, ts.req.id))
           /\ \A k \in DOMAIN ts.cacheLog :
                 ts.cacheLog[k].call \in Invalidations =>
                    /\ ts.cacheLog[k].writes = Len(ts.writes)
                    /\ ts.cacheLog[k].writes >= 1
                    /\ ts.cacheLog[k].index = Len(ts.esLog)

\* a move has made its SearchIndex call after repairing a descendant
C13_Witness ==
    \E t \in Tasks :
        LET ts == task[t] IN
        /\ ts.pc = "done" /\ ts.req.op = "move" /\ ts.res = "OK"
        /\ Len(ts.esLog) = 1 /\ ts.esLog[1].after >= 2

\* ------------------------------------------------------------- interleaved creates and renames
\* names that meet or miss those of the categories in the store once trimmed
RaceNames == { <<"a">>, <<"a", " ">>, <<"e">> }

\* the first task that handles no request
FreeTask == CHOOSE t \in Tasks : Finished(task[t]) /\ \A u \in 1 .. (t - 1) : ~Finished(task[u])

BeginCreateRoot ==
    \E name \in RaceNames :
        /\ nextId + CreatesInFlight <= MaxCats
        /\ \E t \in Tasks : Finished(task[t])
        /\ Begin(FreeTask, Request("create", NULL, name, NULL, NoBody, TRUE))

BeginUpdate ==
    \E id \in DOMAIN cats, name \in RaceNames :
        /\ \E t \in Tasks : Finished(task[t])
        /\ Begin(FreeTask, Request("update", id, <<>>, NULL,
                                   [NoBody EXCEPT !.name = <<name>>], TRUE))

NextNames == BeginCreateRoot \/ BeginUpdate \/ Advance

\* the stores createCategory requests without a parent leave behind
InitRoots ==
    /\ InitCreated
    /\ \A id \in DOMAIN cats : cats[id].parent = NULL

SpecNames == InitRoots /\ [][NextNames]_vars

\* ------------------------------------------------------------- C14
\* no two categories have the same name
UniqueNames ==
    \A i, j \in DOMAIN cats : cats[i].name = cats[j].name => i = j

\* the trimmed name a createCategory or updateCategory request asks for
AskedName(ts) ==
    IF ts.req.op = "create" THEN Trim(ts.req.name) ELSE Trim(ts.req.body.name[1])

\* task t makes its existence check in this step and the name is taken
TakenAtCheck(t) ==
    /\ task[t].pc \in {"create:findOne", "update:findOne"}
    /\ task'[t] # task[t]
    /\ \E i \in DOMAIN cats : cats[i].name = AskedName(task[t])

\* C14: under any interleaving of createCategory and updateCategory requests
\* no two categories ever have the same name (compared exactly, after
\* trimming), and a create or rename that finds its trimmed name taken fails
\* with DuplicateName and changes nothing.
C14_NamesStayUnique ==
    /\ []UniqueNames
    /\ [][\A t \in Tasks :
             TakenAtCheck(t) =>
                /\ task'[t].pc = "done"
                /\ task'[t].res = "DuplicateName"
                /\ task'[t].writes = <<>>
                /\ cats' = cats]_vars

\* two requests for one name have both ended, one of them refused by the check
C14_Witness ==
    \E t, u \in Tasks :
        /\ t # u
        /\ task[t].pc = "done" /\ task[u].pc = "done"
        /\ task[t].req.op \in {"create", "update"}
        /\ task[u].req.op \in {"create", "update"}
        /\ AskedName(task[t]) = AskedName(task[u])
        /\ task[t].res \in {"Created", "OK"}
        /\ task[u].res = "DuplicateName"

\* ------------------------------------------------------------- C15
\* C15: when two createCategory requests with the same name run concurrently
\* and both pass the existence check, one category of that name is persisted
\* and the request that lost is answered DuplicateName.
C15_LosingCreateAnswersDuplicateName ==
    \A t \in Tasks :
        LET ts == task[t]
            holders == {i \in DOMAIN cats : cats[i].name = AskedName(ts)}
        IN (ts.pc = "done" /\ ts.req.op = "create" /\ ts.writes = <<>> /\ holders # {})
           => /\ Cardinality(holders) = 1
              /\ ts.res = "DuplicateName"

\* ------------------------------------------------------------- C16
\* the request names a parent (create) or a new parent other than 'root'
\* (move) that PrimaryStore did not hold when the request arrived
ParentMissing(ts) ==
    /\ ts.req.op \in {"create", "move"}
    /\ ts.req.parent \notin {NULL, ROOT}
    /\ ts.req.parent \notin DOMAIN ts.pre.cats

\* the name createCategory is asked for is that of a category in the store
NameTaken(ts) ==
    /\ ts.req.op = "create"
    /\ \E i \in DOMAIN ts.pre.cats : ts.pre.cats[i].name = Trim(ts.req.name)

\* C16 as stated: createCategory with a parent id, and moveCategory with a new
\* parent id other than 'root', fail with NotFound when that id is not in
\* PrimaryStore; nothing is created or modified and no SearchIndex call is made.
C16_MissingParentIsNotFound ==
    \A t \in Tasks :
        LET ts == task[t] IN
        (Over(t) /\ ParentMissing(ts))
        => /\ ts.res = "NotFound"
           /\ cats = ts.pre.cats
           /\ ts.writes = <<>>
           /\ ts.esLog = <<>>

\* C16, amended: such a request fails with NotFound, except that createCategory
\* answers DuplicateName when its trimmed name is already taken (the name is
\* checked before the parent); either way nothing is created or modified and
\* no SearchIndex call is made.
C16_MissingParentFails ==
    \A t \in Tasks :
        LET ts == task[t] IN
        (Over(t) /\ ParentMissing(ts))
        => /\ ts.res = IF NameTaken(ts) THEN "DuplicateName" ELSE "NotFound"
           /\ cats = ts.pre.cats
           /\ ts.writes = <<>>
           /\ ts.esLog = <<>>

\* a create naming a taken name and a parent that does not exist has failed
C16_Witness ==
    \E t \in Tasks :
        LET ts == task[t] IN
        /\ ts.pc = "done" /\ ts.req.op = "create" /\ ParentMissing(ts)
        /\ NameTaken(ts)
        /\ ts.res = "DuplicateName"
        /\ cats = ts.pre.cats

\* ------------------------------------------------------------- C17
\* C17: a category or tag mutation whose PrimaryStore step fails (a store
\* error, or a refusal: NotFound, DuplicateName, CycleError, HasChildren,
\* NotEmpty) is reported as failed, and makes no SearchIndex and no Cache call.
C17_FailedStoreStepEndsRequest ==
    \A t \in Tasks :
        LET ts == task[t] IN
        ( /\ ts.pc = "done"
          /\ ts.req.op \in CategoryOps \cup TagOps
          /\ ~Committed(ts) \/ ~Success(ts) )
        => /\ ~Success(ts)
           /\ ts.esLog = <<>>
           /\ ts.cacheLog = <<>>

\* a mutation has been refused by its PrimaryStore step
C17_Witness ==
    \E t \in Tasks :
        LET ts == task[t] IN
        /\ ts.pc = "done"
        /\ ts.req.op \in {"move", "delete", "updateTag"}
        /\ ts.res \in {"CycleError", "HasChildren", "DuplicateName"}
        /\ ts.esLog = <<>>

\* ------------------------------------------------------------- C18
\* C18: no createCategory or updateCategory request, whatever its body, changes
\* the resourceCount of any category.
C18_ResourceCountNotSettable ==
    \A t \in Tasks :
        LET ts == task[t] IN
        (Over(t) /\ ts.req.op \in {"create", "update"})
        => \A id \in DOMAIN ts.pre.cats :
              /\ id \in DOMAIN cats
              /\ cats[id].resourceCount = ts.pre.cats[id].resourceCount

\* ------------------------------------------------------------- C19
\* I1 on a store: no category is its own descendant by parent links
Acyclic(c) == \A id \in DOMAIN c : ~IsDescendant(c, id, id)

\* the categories a request saved after its first write, in order
RepairWrites(ts) == SubSeq(ts.writes, 2, Len(ts.writes))

\* C19: a moveCategory that arrives at a store satisfying I1 and saves the
\* moved category ends its descendant repair, having written each strict
\* descendant of the moved category once and no other category.
C19_RepairVisitsEachDescendantOnce ==
    \A t \in Tasks :
        LET ts == task[t]
            below == Descendants(ts.pre.cats, ts.req.id)
        IN ( /\ Over(t)
             /\ ts.req.op = "move"
             /\ Acyclic(ts.pre.cats)
             /\ ts.writes # <<>> )
           => /\ ts.pc = "done"
              /\ Len(RepairWrites(ts)) = Cardinality(below)
              /\ {RepairWrites(ts)[k] : k \in DOMAIN RepairWrites(ts)} = below

\* ------------------------------------------------------------- repair alone
\* updateSubcategoryAncestors called on its own, run to its return
RECURSIVE repairAll(_, _)
repairAll(db, ts) ==
    IF ts.pc # "move:repair" THEN Out(db, ts)
    ELSE LET o == updateSubcategoryAncestors(db, ts) IN repairAll(o.db, o.ts)

\* updateSubcategoryAncestors(id, ancestors of id), with no request in between
RerunRepair(limit) ==
    \E id \in DOMAIN cats :
        /\ \A t \in Tasks : Finished(task[t])
        /\ nreq < limit
        /\ LET r == Request("repair", id, <<>>, NULL, NoBody, TRUE)
               o == repairAll(Db, [IdleTask EXCEPT
                                     !.pc = "move:repair", !.req = r, !.pre = Db,
                                     !.stack = <<Frame(id, cats[id].ancestors)>>])
           IN /\ SetDb(o.db)
              /\ task' = [task EXCEPT ![1] =
                            IF o.ts.pc = "move:index" THEN Respond(o.ts, "OK")
                            ELSE o.ts]
        /\ nreq' = nreq + 1
        /\ script' = OffScript

RepairRequests == 2   \* requests of one behaviour of SpecRepair

\* the bodies of updateCategory that carry a tree position
PositionBodies == {b \in UpdateBodies : b.parent # <<>> \/ b.ancestors # <<>>}

UpdatePosition(limit) ==
    \E id \in DOMAIN cats, body \in PositionBodies :
        Serve(Request("update", id, <<>>, NULL, body, TRUE), limit)

NextRepair ==
    \/ MoveCategory(RepairRequests, Healthy)
    \/ UpdatePosition(RepairRequests)
    \/ RerunRepair(RepairRequests)

SpecRepair == InitCreated /\ [][NextRepair]_vars

\* ------------------------------------------------------------- C20
\* I2 on the subtree of `id`: `id` and every category below it hold their
\* parent chain as ancestors
SubtreeInOrder(c, id) ==
    \A d \in {id} \cup Descendants(c, id) : c[d].ancestors = ParentChain(c, d)

\* C20: updateSubcategoryAncestors(id, ancestors of id), run on a subtree whose
\* ancestors already are the parent chains, returns and leaves the parent and
\* the ancestors of every category as they were.
C20_RepairOfRepairedSubtreeChangesNothing ==
    \A t \in Tasks :
        LET ts == task[t] IN
        ( /\ Over(t)
          /\ ts.req.op = "repair"
          /\ SubtreeInOrder(ts.pre.cats, ts.req.id) )
        => /\ ts.pc = "done"
           /\ ts.res = "OK"
           /\ Tree(cats) = Tree(ts.pre.cats)

\* the repair has been run again over a category with a child and a grandchild
C20_Witness ==
    /\ task[1].pc = "done"
    /\ task[1].req.op = "repair"
    /\ SubtreeInOrder(task[1].pre.cats, task[1].req.id)
    /\ Len(task[1].writes) >= 2
    /\ \E d \in Descendants(cats, task[1].req.id) : Len(cats[d].ancestors) >= 2

\* ------------------------------------------------------------- the index client
\* the resources index of config.elasticsearch.indices, and the missing one
IndexNames == { <<"knowledge_garden_resources">>, <<>> }

IndexedDocuments == { [name |-> <<"a">>, parent |-> NULL], [name |-> <<"b">>, parent |-> NULL] }

\* a call of the client's wrappers made on its own: the task keeps the call
\* and whether it threw
IndexCall(r, call) ==
    /\ \A t \in Tasks : Finished(task[t])
    /\ nreq < MaxRequests
    /\ catIndex' = call.docs
    /\ task' = [task EXCEPT ![1] =
                  Respond([IdleTask EXCEPT !.req = r, !.pre = Db,
                                           !.esLog = <<[after |-> 0] @@ call.log>>],
                          IF call.log.thrown THEN "ServerError" ELSE "OK")]
    /\ nreq' = nreq + 1
    /\ script' = OffScript
    /\ UNCHANGED <<cats, nextId, tags, nextTagId, tagIndex, resources, nextResourceId,
                   users, nextUserId, cache, detached>>

IndexDocument ==
    \E index \in IndexNames, id \in Ids, document \in IndexedDocuments, up \in Flaky :
        IndexCall(Request("indexDocument", id, index, NULL, NoBody, up),
                  indexDocument(catIndex, index, id, document, up))

DeleteDocument ==
    \E index \in IndexNames, id \in Ids, up \in Flaky :
        IndexCall(Request("deleteDocument", id, index, NULL, NoBody, up),
                  deleteDocument(catIndex, index, id, up))

NextIndex == IndexDocument \/ DeleteDocument

SpecIndex == Init /\ [][NextIndex]_vars

\* ------------------------------------------------------------- C21
\* C21: deleteDocument for an id the SearchIndex does not hold does not throw:
\* it answers the not-found result and leaves the index as it was; when the
\* SearchIndex fails in any other way the failure is rethrown to the caller.
C21_DeleteOfMissingIdIsNotFound ==
    LET ts == task[1]
        r == ts.req
        answered == reached(r.name, r.esUp)
    IN (ts.pc = "done" /\ r.op = "deleteDocument")
       => /\ (answered /\ r.id \notin DOMAIN ts.pre.catIndex)
             => /\ ts.res = "OK"
                /\ ts.esLog[1].result = "not_found"
                /\ catIndex = ts.pre.catIndex
          /\ ~answered
             => /\ ts.res = "ServerError"
                /\ ts.esLog[1].thrown /\ ts.esLog[1].logged
                /\ catIndex = ts.pre.catIndex
          /\ (answered /\ r.id \in DOMAIN ts.pre.catIndex)
             => /\ ts.res = "OK"
                /\ r.id \notin DOMAIN catIndex

\* deleteDocument was called for an id missing from an index that holds another
C21_Witness ==
    /\ task[1].pc = "done"
    /\ task[1].req.op = "deleteDocument"
    /\ reached(task[1].req.name, task[1].req.esUp)
    /\ task[1].req.id \notin DOMAIN task[1].pre.catIndex
    /\ catIndex # EmptyIndex

\* ------------------------------------------------------------- Redis unavailable
\* the requests of the cache-checked reads and of the mutations that
\* invalidate a key, as they can arrive at the present stores
DegradedRequests ==
    { ResourceRequest("getResource", id, NoBody, user, noStats) :
         id \in DOMAIN resources, user \in {Admin, Member, Guest}, noStats \in BOOLEAN }
    \cup { ResourceRequest("updateResource", id, body, Admin, FALSE) :
              id \in DOMAIN resources, body \in ResourceBodies }
    \cup { ResourceRequest("deleteResource", id, NoBody, Admin, FALSE) :
              id \in DOMAIN resources }
    \cup { UserRequest("getMe", NULL, <<>>, NoBody, Caller(u)) : u \in DOMAIN users }
    \cup { UserRequest("getUser", id, <<>>, NoBody, Admin) : id \in DOMAIN users }
    \cup { UserRequest("updateUser", id, <<>>, [NoBody EXCEPT !.name = <<name>>], Admin) :
              id \in DOMAIN users, name \in UserNames }

\* a request served while every Redis command fails
Degraded ==
    \E r \in DegradedRequests :
        Serve([r EXCEPT !.cacheUp = FALSE], ResourceRequests)

NextDegraded ==
    \/ GetResource
    \/ CreateResource
    \/ UpdateResource
    \/ ViewCountUpdate
    \/ GetMe
    \/ UpdateUser
    \/ Degraded

SpecDegraded == Init /\ [][NextDegraded]_vars

\* ------------------------------------------------------------- C22
\* the same request served by a Redis that answers and holds nothing
OnEmptyCache(ts) ==
    Run([ts.pre EXCEPT !.cache = EmptyCache],
        NewTask([ts.req EXCEPT !.cacheUp = TRUE], ts.pre))

\* C22: when every Cache operation of a request fails, no failure reaches the
\* caller: cache.get counts as a miss, getResource, getUser and getMe answer
\* what PrimaryStore holds, and updateResource, updateUser and deleteResource
\* answer by their PrimaryStore write alone; the Cache is left as it was.
C22_CacheFailureNeverSurfaces ==
    [][ \A t \in Tasks :
          LET ts == task'[t]
              o == OnEmptyCache(ts)
          IN (task'[t] # task[t] /\ ts.pc = "done" /\ ~ts.req.cacheUp)
             => /\ ~ts.hit
                /\ ts.res # "ServerError"
                /\ ts.res = o.ts.res
                /\ ts.upd = o.ts.upd
                /\ ts.writes = o.ts.writes
                /\ resources' = o.db.resources
                /\ users' = o.db.users
                /\ cache' = cache ]_vars

\* a getResource was answered from PrimaryStore while Redis, holding the
\* resource's key, failed
C22_Witness ==
    /\ task[1].pc = "done"
    /\ ~task[1].req.cacheUp
    /\ task[1].req.op = "getResource"
    /\ task[1].res = "OK"
    /\ ResourceKey(task[1].req.id) \in DOMAIN task[1].pre.cache

\* ------------------------------------------------------------- a call that never returns
\* the awaits of a handler on a Cache call: cache.js and its callers pass no
\* timeout, and redis.createClient({ url }) sets none (cache.js:11-13)
CacheAwaits ==
    { "getResource:cacheGet", "getResource:cacheSet", "updateResource:cacheDel",
      "deleteResource:cacheDel", "updateUser:clearByPattern",
      "updateUser:clearByPattern2" }

\* the request waits for a reply that does not come
Stalled(ts) == ts.req.cacheHangs /\ ts.pc \in CacheAwaits

\* a request arrives and runs to its first await
Arrive(r, limit) ==
    /\ \E t \in Tasks : Finished(task[t])
    /\ nreq < limit
    /\ task' = [task EXCEPT ![FreeTask] = NewTask(r, Db)]
    /\ nreq' = nreq + 1
    /\ script' = OffScript
    /\ UNCHANGED <<cats, nextId, catIndex, tags, nextTagId, tagIndex, resources,
                   nextResourceId, users, nextUserId, cache, detached>>

ArriveUpdateResource ==
    \E id \in DOMAIN resources, body \in ResourceBodies, hangs \in BOOLEAN :
        Arrive([ResourceRequest("updateResource", id, body, Admin, FALSE)
                   EXCEPT !.cacheHangs = hangs], ResourceRequests)

ArriveDeleteResource ==
    \E id \in DOMAIN resources, hangs \in BOOLEAN :
        Arrive([ResourceRequest("deleteResource", id, NoBody, Admin, FALSE)
                   EXCEPT !.cacheHangs = hangs], ResourceRequests)

ArriveUpdateUser ==
    \E id \in DOMAIN users, name \in UserNames, hangs \in BOOLEAN :
        Arrive([UserRequest("updateUser", id, <<>>, [NoBody EXCEPT !.name = <<name>>],
                            Admin) EXCEPT !.cacheHangs = hangs], ResourceRequests)

\* the promise task t awaits settles and the handler runs to its next await
Resume(t) ==
    /\ task[t].pc \notin {"idle", "done", "diverged"}
    /\ ~Stalled(task[t])
    /\ LET o == Step(Db, task[t]) IN
         /\ SetDb(o.db)
         /\ task' = [task EXCEPT ![t] = o.ts]
    /\ UNCHANGED <<nreq, script>>

ResumeSome == \E t \in Tasks : Resume(t)

NextStall ==
    \/ CreateResource
    \/ ArriveUpdateResource
    \/ ArriveDeleteResource
    \/ ArriveUpdateUser
    \/ ResumeSome

\* Node runs the continuation of every await whose promise has settled
SpecStall ==
    Init /\ [][NextStall]_vars /\ \A t \in Tasks : WF_vars(Resume(t))

\* ------------------------------------------------------------- C23
\* C23: a mutation whose PrimaryStore write succeeded returns its response in
\* the end, even when a Cache call it makes never returns.
C23_MutationReturnsDespiteHungCall ==
    \A t \in Tasks : (task[t].writes # <<>>) ~> Finished(task[t])

\* the same, for the requests whose Cache calls all return
ReturnsWhenCallsReturn ==
    \A t \in Tasks :
        (task[t].writes # <<>> /\ ~task[t].req.cacheHangs) ~> Finished(task[t])

\* ------------------------------------------------------------- a filled Cache
\* the keys the cache-checked reads fill for the documents of a store
WarmKeys(us, rs) ==
    {ProfileKey(u) : u \in DOMAIN us} \cup {AdminUserKey(u) : u \in DOMAIN us}
        \cup {ResourceKey(r) : r \in DOMAIN rs}

\* what the miss path of getMe, getUser or getResource stores under a key
WarmValue(us, rs, key) ==
    IF key[1] = "resource"
    THEN rs[CHOOSE r \in DOMAIN rs : ResourceKey(r) = key]
    ELSE getProfile(us[CHOOSE u \in DOMAIN us : key \in {ProfileKey(u), AdminUserKey(u)}])

\* the stores after createUser and createResource requests, and a Cache that
\* holds some of the keys the reads have filled since
InitWarm ==
    /\ cats = EmptyStore
    /\ nextId = 1
    /\ catIndex = EmptyIndex
    /\ tags = EmptyStore
    /\ nextTagId = 1
    /\ tagIndex = EmptyIndex
    /\ resources = [i \in 1 .. 1 |-> NewResource(i, "t1", "public", Admin.id)]
    /\ nextResourceId = 2
    /\ users = [i \in 1 .. MaxUsers |->
                  IF i = Admin.id THEN SeededUsers[i]
                  ELSE NewUser(i, "n1", "student", "p1")]
    /\ nextUserId = MaxUsers + 1
    /\ \E K \in SUBSET WarmKeys(users, resources) :
          cache = [k \in K |-> WarmValue(users, resources, k)]
    /\ detached = <<>>
    /\ task = [t \in Tasks |-> IdleTask]
    /\ nreq = 0
    /\ script = OffScript

KeysRequests == 2   \* requests of one behaviour of SpecKeys

\* the requests that invalidate keys of the Cache, as they can arrive at the
\* present stores
InvalidatingRequests ==
    { UserRequest("updateDetails", NULL, <<>>, [NoBody EXCEPT !.name = <<"n2">>],
                  Caller(u)) : u \in DOMAIN users }
    \cup { UserRequest("updatePassword", NULL, <<>>,
                       [NoBody EXCEPT !.currentPassword = <<current>>,
                                      !.password = <<"p1">>], Caller(u)) :
              u \in DOMAIN users, current \in Passwords }
    \cup { UserRequest("updateUser", id, <<>>, [NoBody EXCEPT !.name = <<"n2">>], Admin) :
              id \in DOMAIN users }
    \cup { UserRequest("deleteUser", id, <<>>, NoBody, Admin) : id \in DOMAIN users }
    \cup { UserRequest("changeUserRole", id, <<>>, [NoBody EXCEPT !.role = <<"faculty">>],
                       Admin) : id \in DOMAIN users }
    \cup { ResourceRequest("updateResource", id, body, Admin, FALSE) :
              id \in DOMAIN resources, body \in ResourceBodies }
    \cup { ResourceRequest("deleteResource", id, NoBody, Admin, FALSE) :
              id \in DOMAIN resources }

Invalidate == \E r \in InvalidatingRequests : Serve(r, KeysRequests)

NextKeys == Invalidate

SpecKeys == InitWarm /\ [][NextKeys]_vars

\* ------------------------------------------------------------- C24
\* the user or resource a mutation addresses
Addressed(ts) ==
    IF ts.req.op \in {"updateDetails", "updatePassword"} THEN ts.req.user.id
    ELSE ts.req.id

\* the key belongs to the entity the request addresses
OfAddressed(ts, key) ==
    IF ts.req.op \in {"updateResource", "deleteResource"}
    THEN key = ResourceKey(Addressed(ts))
    ELSE \/ key = AdminUserKey(Addressed(ts))
         \/ Len(key) >= 2 /\ key[1] = "user" /\ key[2] = IdSegment(Addressed(ts))

\* C24: an invalidation is confined to the entity addressed: every key a
\* request removes from the Cache matches a pattern or key the request passed
\* to clearByPattern or del and belongs to the addressed entity; every other
\* key keeps its value, so no other entity loses a key and the Cache is not
\* flushed.
C24_InvalidationIsConfined ==
    [][ \A t \in Tasks :
          LET ts == task'[t] IN
          (task'[t] # task[t] /\ ts.pc = "done")
          => \A k \in DOMAIN cache :
                \/ k \in DOMAIN cache' /\ cache'[k] = cache[k]
                \/ /\ OfAddressed(ts, k)
                   /\ \E j \in DOMAIN ts.cacheLog :
                         /\ ts.cacheLog[j].call \in Invalidations
                         /\ globMatch(ts.cacheLog[j].key, k) ]_vars

\* updateUser has removed both keys of one user from a Cache that still holds
\* a key of another user and the key of a resource
C24_Witness ==
    /\ task[1].pc = "done"
    /\ task[1].req.op = "updateUser"
    /\ task[1].res = "OK"
    /\ {ProfileKey(task[1].req.id), AdminUserKey(task[1].req.id)}
          \subseteq DOMAIN task[1].pre.cache
    /\ ProfileKey(task[1].req.id) \notin DOMAIN cache
    /\ AdminUserKey(task[1].req.id) \notin DOMAIN cache
    /\ \E u \in DOMAIN users : u # task[1].req.id /\ ProfileKey(u) \in DOMAIN cache
    /\ \E r \in DOMAIN resources : ResourceKey(r) \in DOMAIN cache

\* ------------------------------------------------------------- C25
\* C25: updateCategory leaves the parent and the ancestors of every category
\* as they were, whatever the request body carries.
C25_UpdateKeepsTreePosition ==
    \A t \in Tasks :
        (Over(t) /\ task[t].req.op = "update")
        => Tree(cats) = Tree(task[t].pre.cats)

\* ------------------------------------------------------------- counting usage
UsageRequests == 3  \* requests of one behaviour of SpecUsage

\* the tags createTag requests leave behind, none of them used yet
InitTags ==
    /\ cats = EmptyStore
    /\ nextId = 1
    /\ catIndex = EmptyIndex
    /\ \E n \in 1 .. MaxTags :
          /\ tags = [i \in 1 .. n |-> NewTag(i, <<Letters[i]>>, Admin.id)]
          /\ nextTagId = n + 1
    /\ tagIndex = EmptyIndex
    /\ resources = EmptyStore
    /\ nextResourceId = 1
    /\ users = SeededUsers
    /\ nextUserId = 2
    /\ cache = EmptyCache
    /\ detached = <<>>
    /\ task = [t \in Tasks |-> IdleTask]
    /\ nreq = 0
    /\ script = OffScript

ArriveIncrementUsage ==
    \E id \in DOMAIN tags :
        Arrive(TagRequest("incrementUsage", id, <<>>, NoBody, Admin, TRUE), UsageRequests)

NextUsage == ArriveIncrementUsage \/ Advance

SpecUsage == InitTags /\ [][NextUsage]_vars

\* ------------------------------------------------------------- C26
RECURSIVE usageUpTo(_, _)
usageUpTo(g, n) == IF n = 0 THEN 0 ELSE g[n].usageCount + usageUpTo(g, n - 1)

\* the usage counted over all tags
TotalUsage(g) == usageUpTo(g, Cardinality(DOMAIN g))

\* C26: once N incrementUsage requests have completed successfully, however
\* they were interleaved, the usage counts have grown by N: each request added
\* one to the count of its tag (the tags start unused, so the counts sum to N).
C26_UsageCountsEveryRequest ==
    ( /\ \A t \in Tasks : Finished(task[t])
      /\ \A t \in Tasks : task[t].pc = "done" => task[t].res = "OK" )
    => TotalUsage(tags) = nreq

\* ------------------------------------------------------------- C27
\* I2 on a store: the ancestors of a category are those of its parent followed
\* by the parent, and none for a root
PathsCorrect(c) ==
    \A id \in DOMAIN c :
        c[id].ancestors =
            IF c[id].parent = NULL THEN <<>>
            ELSE IF c[id].parent \in DOMAIN c
                 THEN Append(c[c[id].parent].ancestors, c[id].parent)
                 ELSE Broken

\* C27: once concurrent moveCategory requests on different categories have all
\* finished, none of them with a server error, I2 holds.
C27_PathsCorrectAfterConcurrentMoves ==
    ( /\ \A t \in Tasks :
            /\ task[t].pc = "done"
            /\ task[t].req.op = "move"
            /\ task[t].res # "ServerError"
      /\ \A t, u \in Tasks : t # u => task[t].req.id # task[u].req.id )
    => PathsCorrect(cats)

\* ------------------------------------------------------------- deleting under way
RaceRequests == 2   \* requests of one behaviour of SpecRace

ArriveCreate ==
    \E parent \in DOMAIN cats :
        /\ nextId + CreatesInFlight <= MaxCats
        /\ Arrive(Request("create", NULL, <<Letters[nextId + CreatesInFlight]>>, parent,
                          NoBody, TRUE), RaceRequests)

ArriveMove ==
    \E id \in DOMAIN cats, newParentId \in DOMAIN cats :
        Arrive(Request("move", id, <<>>, newParentId, NoBody, TRUE), RaceRequests)

ArriveDelete ==
    \E id \in DOMAIN cats :
        Arrive(Request("delete", id, <<>>, NULL, NoBody, TRUE), RaceRequests)

NextRace == ArriveCreate \/ ArriveMove \/ ArriveDelete \/ Advance

SpecRace == InitCreated /\ [][NextRace]_vars

Quiescent == detached = <<>> /\ \A t \in Tasks : Finished(task[t])

\* `snapshot` shows the resource as PrimaryStore has held it since it was
\* written as `written`: only the view counter may lag behind
TakenSince(snapshot, written, stored) ==
    /\ [snapshot EXCEPT !.viewCount = stored.viewCount,
                        !.populated = stored.populated] = stored
    /\ snapshot.viewCount >= written.viewCount

\* C29: once an updateResource or deleteResource has returned and nothing is
\* in flight any more, the entry resource:{id} of the Cache is absent or a
\* snapshot of PrimaryStore taken at or after the mutation.
C29_NoSnapshotFromBeforeTheMutation ==
    LET ts == task[1]
        key == ResourceKey(ts.req.id)
    IN ( /\ Quiescent
         /\ ts.req.op \in {"updateResource", "deleteResource"}
         /\ ts.res = "OK" )
       => \/ key \notin DOMAIN cache
          \/ TakenSince(cache[key], ts.upd, resources[ts.req.id])

====
